---- MODULE Spec2Model ----
(***************************************************************************)
(* Model of the vital-signs observation service of open-cis               *)
(* (api/src/observations, api/src/ehrbase): the request handlers of the   *)
(* router, the ObservationService operations they call, the pydantic      *)
(* validators of the schemas and the replies of the EHRBase gateway;      *)
(* of the patient registry (api/src/patients) and of the application      *)
(* around them (api/src/main.py).  An action is the code that runs        *)
(* between two awaits of a handler.  Spec, SpecRows, SpecPatients and     *)
(* SpecStore have one request in flight at a time; SpecGateway and        *)
(* SpecConcurrent interleave several coroutines.                          *)
(***************************************************************************)
EXTENDS Integers, Sequences, FiniteSets, TLC

VARIABLES
    now,               \* the wall clock (datetime.utcnow / datetime.now(UTC)), in seconds
    registry,          \* the rows of the patientregistry table
    ARCHETYPES,        \* ObservationService.ARCHETYPES, a class-level dict
    pc,                \* where the request in flight is suspended
    op,                \* the operation of the request in flight
    data,              \* the body of POST /vital-signs (VitalSignsCreate)
    query_args,        \* the query arguments of GET /vital-signs
    ehr_id,            \* local: patient.ehrId
    flat_composition,  \* local of record_vital_signs
    calls,             \* the gateway calls made for the request in flight
    result,            \* the reply of the gateway to the awaited call
    response,          \* what the caller of the request receives
    _client,           \* ehrbase_client._client: None or the httpx.AsyncClient in use
    http_clients,      \* every httpx.AsyncClient ever created: "open", "closing", "closed"
    db_connected,      \* prisma.is_connected()
    store,             \* the compositions EHRBase holds, by composition uid
    tasks              \* the coroutines that run concurrently, each with its locals

\* the state of the module-level singleton ehrbase_client
ehrbase_client == <<_client, http_clients>>

vars == <<now, registry, ARCHETYPES, pc, op, data, query_args, ehr_id,
          flat_composition, calls, result, response, _client, http_clients,
          db_connected, store, tasks>>

(***************************************************************************)
(* Bounds of the model.                                                    *)
(***************************************************************************)
MaxTime == 1
MaxRows == 2
MaxClients == 2   \* how many httpx.AsyncClient instances a behaviour may create

(***************************************************************************)
(* Python values.  A value is a record [t, n, s]: t the type, n the        *)
(* number (int, float n.0, or the instant of a datetime), s the text (str, *)
(* or the tzinfo of a datetime).  Missing stands for a key a dict lacks.   *)
(***************************************************************************)
PyNone == [t |-> "none", n |-> 0, s |-> ""]
Missing == [t |-> "missing", n |-> 0, s |-> ""]
PyInt(n) == [t |-> "int", n |-> n, s |-> ""]
PyFloat(n) == [t |-> "float", n |-> n, s |-> ""]
PyStr(s) == [t |-> "str", n |-> 0, s |-> s]
PyDatetime(n, tz) == [t |-> "datetime", n |-> n, s |-> tz]

\* bool(v)
truthy(v) ==
    CASE v.t \in {"none", "missing"} -> FALSE
      [] v.t \in {"int", "float"} -> v.n # 0
      [] v.t = "str" -> v.s # ""
      [] OTHER -> TRUE

\* a or b
py_or(a, b) == IF truthy(a) THEN a ELSE b

\* d.get(key, default) on the value found under key (Missing when the key is absent)
dict_get(v, default) == IF v.t = "missing" THEN default ELSE v

(***************************************************************************)
(* Strings.                                                                *)
(***************************************************************************)
StartsWith(s, p) == Len(s) >= Len(p) /\ SubSeq(s, 1, Len(p)) = p

Contains(s, sub) ==
    \E i \in 1..(Len(s) - Len(sub) + 1) : SubSeq(s, i, i + Len(sub) - 1) = sub

RECURSIVE str_replace(_, _, _)
\* s.replace(old, new) for a one-character old
str_replace(s, old, new) ==
    IF s = "" THEN ""
    ELSE (IF Head(s) = old THEN new ELSE Head(s)) \o str_replace(Tail(s), old, new)

Digits == <<"0", "1", "2", "3", "4", "5", "6", "7", "8", "9">>
IsDigit(c) == \E i \in 1..10 : Digits[i] = c
DigitVal(c) == (CHOOSE i \in 1..10 : Digits[i] = c) - 1

RECURSIVE DigitsVal(_)
DigitsVal(s) ==
    IF s = "" THEN 0
    ELSE DigitsVal(SubSeq(s, 1, Len(s) - 1)) * 10 + DigitVal(SubSeq(s, Len(s), Len(s)))

AllDigits(s) == s # "" /\ \A i \in 1..Len(s) : IsDigit(SubSeq(s, i, i))

(***************************************************************************)
(* datetime.  The model's instants are the seconds of one minute.          *)
(***************************************************************************)
IsoMinute == "2024-01-01T10:00:"
TwoDigits(n) == IF n < 10 THEN "0" \o ToString(n) ELSE ToString(n)

\* isoformat that drops the UTC offset of an aware datetime
isoformat_without_offset(dt) == IsoMinute \o TwoDigits(dt.n)

\* datetime.isoformat()
isoformat(dt) == IsoMinute \o TwoDigits(dt.n) \o (IF dt.s = "UTC" THEN "+00:00" ELSE "")

\* datetime.fromisoformat(s) succeeds
fromisoformat_ok(s) ==
    /\ Len(s) \in {19, 25}
    /\ SubSeq(s, 1, 17) = IsoMinute
    /\ AllDigits(SubSeq(s, 18, 19))
    /\ DigitsVal(SubSeq(s, 18, 19)) < 60
    /\ Len(s) = 25 => SubSeq(s, 20, 25) = "+00:00"

\* datetime.fromisoformat(s)
fromisoformat(s) ==
    PyDatetime(DigitsVal(SubSeq(s, 18, 19)), IF Len(s) = 25 THEN "UTC" ELSE "")

\* datetime.utcnow(): naive
utcnow == PyDatetime(now, "")

Instants == 0..MaxTime
Datetimes == {PyDatetime(n, tz) : n \in Instants, tz \in {"", "UTC"}}

(***************************************************************************)
(* observations/schemas.py                                                 *)
(***************************************************************************)
SYSTOLIC_GE == 50
SYSTOLIC_LE == 300
DIASTOLIC_GE == 30
DIASTOLIC_LE == 200
PULSE_RATE_GE == 20
PULSE_RATE_LE == 300

\* Field(None, ge=lo, le=hi) on an int | None field
field_ok(v, lo, hi) == v.t = "none" \/ (v.t = "int" /\ lo <= v.n /\ v.n <= hi)

\* VitalSignsCreate.validate_not_future: TRUE when v is accepted.
\* datetime.now(UTC) is aware; a naive v is read as UTC.
validate_not_future(v) == ~(v.n > now)

\* validate_vitals without its second check (systolic and diastolic together)
validate_vitals_without_pair_check(self) ==
    LET has_bp == self.systolic # PyNone \/ self.diastolic # PyNone
        has_pulse == self.pulse_rate # PyNone
    IN  ~(~has_bp /\ ~has_pulse)

\* VitalSignsCreate.validate_vitals: TRUE when the record is accepted
validate_vitals(self) ==
    LET has_bp == self.systolic # PyNone \/ self.diastolic # PyNone
        has_pulse == self.pulse_rate # PyNone
    IN  /\ ~(~has_bp /\ ~has_pulse)
        /\ ~((self.systolic = PyNone) # (self.diastolic = PyNone))

\* Constructing VitalSignsCreate(...) raises no ValidationError
VitalSignsCreate_ok(d) ==
    /\ d.recorded_at.t = "datetime"
    /\ validate_not_future(d.recorded_at)
    /\ field_ok(d.systolic, SYSTOLIC_GE, SYSTOLIC_LE)
    /\ field_ok(d.diastolic, DIASTOLIC_GE, DIASTOLIC_LE)
    /\ field_ok(d.pulse_rate, PULSE_RATE_GE, PULSE_RATE_LE)
    /\ validate_vitals(d)

VitalSignsCreate(patient_id, encounter_id, recorded_at, systolic, diastolic, pulse_rate) ==
    [patient_id |-> patient_id, encounter_id |-> encounter_id,
     recorded_at |-> recorded_at, systolic |-> systolic,
     diastolic |-> diastolic, pulse_rate |-> pulse_rate]

\* Constructing VitalSignsResponse(...) raises no ValidationError:
\* id: str, the vitals int | None, the metadata's composition_uid: str
VitalSignsResponse_ok(r) ==
    /\ r.id.t = "str"
    /\ r.openehr_metadata.composition_uid.t = "str"
    /\ r.recorded_at.t = "datetime"
    /\ \A v \in {r.systolic, r.diastolic, r.pulse_rate} : v.t \in {"none", "int"}

(***************************************************************************)
(* observations/service.py: the static data and the two builders           *)
(***************************************************************************)
TEMPLATE_ID == "IDCR - Vital Signs Encounter.v1"

\* The literal that initialises ObservationService.ARCHETYPES
ARCHETYPES_LITERAL ==
    [blood_pressure |->
        [id |-> "openEHR-EHR-OBSERVATION.blood_pressure.v1",
         systolic_path |-> "/data[at0001]/events[at0006]/data[at0003]/items[at0004]/value",
         diastolic_path |-> "/data[at0001]/events[at0006]/data[at0003]/items[at0005]/value"],
     pulse |->
        [id |-> "openEHR-EHR-OBSERVATION.pulse.v1",
         rate_path |-> "/data[at0002]/events[at0003]/data[at0001]/items[at0004]/value"],
     composition |->
        [id |-> "openEHR-EHR-COMPOSITION.encounter.v1"]]

\* dict.update: the keys of new replace those of old
dict_update(old, new) == new @@ old

\* _build_flat_composition with the two blood-pressure magnitudes exchanged
build_flat_composition_swapped(d) ==
    LET recorded_at_iso == isoformat(d.recorded_at)
        composition == ("ctx/language" :> PyStr("en"))
                    @@ ("ctx/territory" :> PyStr("US"))
                    @@ ("ctx/time" :> PyStr(recorded_at_iso))
        bp_path == "vital_signs/blood_pressure:0/any_event:0"
        with_bp ==
            IF d.systolic # PyNone /\ d.diastolic # PyNone
            THEN dict_update(composition,
                    ((bp_path \o "/systolic|magnitude") :> d.diastolic)
                 @@ ((bp_path \o "/systolic|unit") :> PyStr("mm[Hg]"))
                 @@ ((bp_path \o "/diastolic|magnitude") :> d.systolic)
                 @@ ((bp_path \o "/diastolic|unit") :> PyStr("mm[Hg]"))
                 @@ ((bp_path \o "/time") :> PyStr(recorded_at_iso)))
            ELSE composition
        pulse_path == "vital_signs/pulse_heart_beat:0/any_event:0"
    IN  IF d.pulse_rate # PyNone
        THEN dict_update(with_bp,
                ((pulse_path \o "/rate|magnitude") :> d.pulse_rate)
             @@ ((pulse_path \o "/rate|unit") :> PyStr("/min"))
             @@ ((pulse_path \o "/time") :> PyStr(recorded_at_iso)))
        ELSE with_bp

\* _build_flat_composition without the test of pulse_rate: the pulse group always
build_flat_composition_always_pulse(d) ==
    LET recorded_at_iso == isoformat(d.recorded_at)
        composition == ("ctx/language" :> PyStr("en"))
                    @@ ("ctx/territory" :> PyStr("US"))
                    @@ ("ctx/time" :> PyStr(recorded_at_iso))
        bp_path == "vital_signs/blood_pressure:0/any_event:0"
        with_bp ==
            IF d.systolic # PyNone /\ d.diastolic # PyNone
            THEN dict_update(composition,
                    ((bp_path \o "/systolic|magnitude") :> d.systolic)
                 @@ ((bp_path \o "/systolic|unit") :> PyStr("mm[Hg]"))
                 @@ ((bp_path \o "/diastolic|magnitude") :> d.diastolic)
                 @@ ((bp_path \o "/diastolic|unit") :> PyStr("mm[Hg]"))
                 @@ ((bp_path \o "/time") :> PyStr(recorded_at_iso)))
            ELSE composition
        pulse_path == "vital_signs/pulse_heart_beat:0/any_event:0"
    IN  dict_update(with_bp,
                ((pulse_path \o "/rate|magnitude") :> d.pulse_rate)
             @@ ((pulse_path \o "/rate|unit") :> PyStr("/min"))
             @@ ((pulse_path \o "/time") :> PyStr(recorded_at_iso)))

\* _build_flat_composition with the time of the call as ctx/time
build_flat_composition_clock(d) ==
    LET recorded_at_iso == isoformat(d.recorded_at)
        composition == ("ctx/language" :> PyStr("en"))
                    @@ ("ctx/territory" :> PyStr("US"))
                    @@ ("ctx/time" :> PyStr(isoformat(utcnow)))
        bp_path == "vital_signs/blood_pressure:0/any_event:0"
        with_bp ==
            IF d.systolic # PyNone /\ d.diastolic # PyNone
            THEN dict_update(composition,
                    ((bp_path \o "/systolic|magnitude") :> d.systolic)
                 @@ ((bp_path \o "/systolic|unit") :> PyStr("mm[Hg]"))
                 @@ ((bp_path \o "/diastolic|magnitude") :> d.diastolic)
                 @@ ((bp_path \o "/diastolic|unit") :> PyStr("mm[Hg]"))
                 @@ ((bp_path \o "/time") :> PyStr(recorded_at_iso)))
            ELSE composition
        pulse_path == "vital_signs/pulse_heart_beat:0/any_event:0"
    IN  IF d.pulse_rate # PyNone
        THEN dict_update(with_bp,
                ((pulse_path \o "/rate|magnitude") :> d.pulse_rate)
             @@ ((pulse_path \o "/rate|unit") :> PyStr("/min"))
             @@ ((pulse_path \o "/time") :> PyStr(recorded_at_iso)))
        ELSE with_bp

\* ObservationService._build_flat_composition
_build_flat_composition(d) ==
    LET recorded_at_iso == isoformat(d.recorded_at)
        base == "vital_signs"
        composition == ("ctx/language" :> PyStr("en"))
                    @@ ("ctx/territory" :> PyStr("US"))
                    @@ ("ctx/time" :> PyStr(recorded_at_iso))
        bp_path == base \o "/blood_pressure:0/any_event:0"
        with_bp ==
            IF d.systolic # PyNone /\ d.diastolic # PyNone
            THEN dict_update(composition,
                    ((bp_path \o "/systolic|magnitude") :> d.systolic)
                 @@ ((bp_path \o "/systolic|unit") :> PyStr("mm[Hg]"))
                 @@ ((bp_path \o "/diastolic|magnitude") :> d.diastolic)
                 @@ ((bp_path \o "/diastolic|unit") :> PyStr("mm[Hg]"))
                 @@ ((bp_path \o "/time") :> PyStr(recorded_at_iso)))
            ELSE composition
        pulse_path == base \o "/pulse_heart_beat:0/any_event:0"
    IN  IF d.pulse_rate # PyNone
        THEN dict_update(with_bp,
                ((pulse_path \o "/rate|magnitude") :> d.pulse_rate)
             @@ ((pulse_path \o "/rate|unit") :> PyStr("/min"))
             @@ ((pulse_path \o "/time") :> PyStr(recorded_at_iso)))
        ELSE with_bp

\* PathMappingResponse that does not carry the value of the field
PathMappingResponse_without_value(field, archetype_id, archetype_path, flat_path, value, unit) ==
    [field |-> field, archetype_id |-> archetype_id, archetype_path |-> archetype_path,
     flat_path |-> flat_path, value |-> PyNone, unit |-> unit]

PathMappingResponse(field, archetype_id, archetype_path, flat_path, value, unit) ==
    [field |-> field, archetype_id |-> archetype_id, archetype_path |-> archetype_path,
     flat_path |-> flat_path, value |-> value, unit |-> unit]

\* _build_openehr_metadata that lists the pulse archetype whatever the record carries
build_openehr_metadata_always_pulse(composition_uid, the_ehr_id, d) ==
    LET has_bp == d.systolic # PyNone /\ d.diastolic # PyNone
        has_pulse == d.pulse_rate # PyNone
        bp_archetype == ARCHETYPES.blood_pressure
        pulse_archetype == ARCHETYPES.pulse
        bp_mappings ==
            << PathMappingResponse("systolic", bp_archetype.id,
                   bp_archetype.systolic_path \o "/magnitude",
                   "vital_signs/blood_pressure:0/any_event:0/systolic|magnitude",
                   d.systolic, "mm[Hg]"),
               PathMappingResponse("diastolic", bp_archetype.id,
                   bp_archetype.diastolic_path \o "/magnitude",
                   "vital_signs/blood_pressure:0/any_event:0/diastolic|magnitude",
                   d.diastolic, "mm[Hg]") >>
        pulse_mappings ==
            << PathMappingResponse("pulse_rate", pulse_archetype.id,
                   pulse_archetype.rate_path \o "/magnitude",
                   "vital_signs/pulse_heart_beat:0/any_event:0/rate|magnitude",
                   d.pulse_rate, "/min") >>
    IN  [composition_uid |-> composition_uid,
         template_id |-> TEMPLATE_ID,
         archetype_ids |-> <<ARCHETYPES.composition.id>>
                           \o (IF has_bp THEN <<ARCHETYPES.blood_pressure.id>> ELSE <<>>)
                           \o <<ARCHETYPES.pulse.id>>,
         ehr_id |-> the_ehr_id,
         path_mappings |-> (IF has_bp THEN bp_mappings ELSE <<>>)
                           \o (IF has_pulse THEN pulse_mappings ELSE <<>>)]

\* _build_openehr_metadata without the mapping of the diastolic pressure
build_openehr_metadata_systolic_only(composition_uid, the_ehr_id, d) ==
    LET has_bp == d.systolic # PyNone /\ d.diastolic # PyNone
        has_pulse == d.pulse_rate # PyNone
        bp_archetype == ARCHETYPES.blood_pressure
        pulse_archetype == ARCHETYPES.pulse
        bp_mappings ==
            << PathMappingResponse("systolic", bp_archetype.id,
                   bp_archetype.systolic_path \o "/magnitude",
                   "vital_signs/blood_pressure:0/any_event:0/systolic|magnitude",
                   d.systolic, "mm[Hg]") >>
        pulse_mappings ==
            << PathMappingResponse("pulse_rate", pulse_archetype.id,
                   pulse_archetype.rate_path \o "/magnitude",
                   "vital_signs/pulse_heart_beat:0/any_event:0/rate|magnitude",
                   d.pulse_rate, "/min") >>
    IN  [composition_uid |-> composition_uid,
         template_id |-> TEMPLATE_ID,
         archetype_ids |-> <<ARCHETYPES.composition.id>>
                           \o (IF has_bp THEN <<ARCHETYPES.blood_pressure.id>> ELSE <<>>)
                           \o (IF has_pulse THEN <<ARCHETYPES.pulse.id>> ELSE <<>>),
         ehr_id |-> the_ehr_id,
         path_mappings |-> (IF has_bp THEN bp_mappings ELSE <<>>)
                           \o (IF has_pulse THEN pulse_mappings ELSE <<>>)]

\* _build_openehr_metadata with a pulse path the composition builder does not write
build_openehr_metadata_other_path(composition_uid, the_ehr_id, d) ==
    LET has_bp == d.systolic # PyNone /\ d.diastolic # PyNone
        has_pulse == d.pulse_rate # PyNone
        bp_archetype == ARCHETYPES.blood_pressure
        pulse_archetype == ARCHETYPES.pulse
        bp_mappings ==
            << PathMappingResponse("systolic", bp_archetype.id,
                   bp_archetype.systolic_path \o "/magnitude",
                   "vital_signs/blood_pressure:0/any_event:0/systolic|magnitude",
                   d.systolic, "mm[Hg]"),
               PathMappingResponse("diastolic", bp_archetype.id,
                   bp_archetype.diastolic_path \o "/magnitude",
                   "vital_signs/blood_pressure:0/any_event:0/diastolic|magnitude",
                   d.diastolic, "mm[Hg]") >>
        pulse_mappings ==
            << PathMappingResponse("pulse_rate", pulse_archetype.id,
                   pulse_archetype.rate_path \o "/magnitude",
                   "vital_signs/pulse:0/any_event:0/rate|magnitude",
                   d.pulse_rate, "/min") >>
    IN  [composition_uid |-> composition_uid,
         template_id |-> TEMPLATE_ID,
         archetype_ids |-> <<ARCHETYPES.composition.id>>
                           \o (IF has_bp THEN <<ARCHETYPES.blood_pressure.id>> ELSE <<>>)
                           \o (IF has_pulse THEN <<ARCHETYPES.pulse.id>> ELSE <<>>),
         ehr_id |-> the_ehr_id,
         path_mappings |-> (IF has_bp THEN bp_mappings ELSE <<>>)
                           \o (IF has_pulse THEN pulse_mappings ELSE <<>>)]

\* ObservationService._build_openehr_metadata
_build_openehr_metadata(composition_uid, the_ehr_id, d) ==
    LET has_bp == d.systolic # PyNone /\ d.diastolic # PyNone
        has_pulse == d.pulse_rate # PyNone
        bp_archetype == ARCHETYPES.blood_pressure
        pulse_archetype == ARCHETYPES.pulse
        bp_mappings ==
            << PathMappingResponse("systolic", bp_archetype.id,
                   bp_archetype.systolic_path \o "/magnitude",
                   "vital_signs/blood_pressure:0/any_event:0/systolic|magnitude",
                   d.systolic, "mm[Hg]"),
               PathMappingResponse("diastolic", bp_archetype.id,
                   bp_archetype.diastolic_path \o "/magnitude",
                   "vital_signs/blood_pressure:0/any_event:0/diastolic|magnitude",
                   d.diastolic, "mm[Hg]") >>
        pulse_mappings ==
            << PathMappingResponse("pulse_rate", pulse_archetype.id,
                   pulse_archetype.rate_path \o "/magnitude",
                   "vital_signs/pulse_heart_beat:0/any_event:0/rate|magnitude",
                   d.pulse_rate, "/min") >>
    IN  [composition_uid |-> composition_uid,
         template_id |-> TEMPLATE_ID,
         archetype_ids |-> <<ARCHETYPES.composition.id>>
                           \o (IF has_bp THEN <<ARCHETYPES.blood_pressure.id>> ELSE <<>>)
                           \o (IF has_pulse THEN <<ARCHETYPES.pulse.id>> ELSE <<>>),
         ehr_id |-> the_ehr_id,
         path_mappings |-> (IF has_bp THEN bp_mappings ELSE <<>>)
                           \o (IF has_pulse THEN pulse_mappings ELSE <<>>)]

VitalSignsResponse(id, patient_id, encounter_id, recorded_at, systolic, diastolic, pulse_rate, created_at, openehr_metadata) ==
    [id |-> id, patient_id |-> patient_id, encounter_id |-> encounter_id,
     recorded_at |-> recorded_at, systolic |-> systolic, diastolic |-> diastolic,
     pulse_rate |-> pulse_rate, created_at |-> created_at,
     openehr_metadata |-> openehr_metadata]

(***************************************************************************)
(* patients/repository.py                                                  *)
(***************************************************************************)
\* find_patient_by_id: find_unique(where={"id": patient_id}); the set of rows found
find_patient_by_id(patient_id) == {row \in registry : row.id = patient_id}

(***************************************************************************)
(* The EHRBase gateway (ehrbase/client.py) as the service sees it: a call  *)
(* is recorded in calls and its reply is either an exception               *)
(* (httpx.ConnectError, or httpx.HTTPStatusError from raise_for_status)    *)
(* or the JSON document of the response.                                   *)
(***************************************************************************)
Dict(value) == [t |-> "dict", n |-> 0, s |-> "", value |-> value]

\* an httpx.AsyncClient instance, by the order of its creation
AsyncClient(n) == [t |-> "AsyncClient", n |-> n, s |-> ""]

\* _get_client that builds a new httpx.AsyncClient on every call
_get_client_always_new ==
    /\ Len(http_clients) < MaxClients
    /\ http_clients' = Append(http_clients, "open")
    /\ _client' = AsyncClient(Len(http_clients) + 1)

\* EHRBaseClient._get_client: the HTTP client is created when _client is None
\* and is returned as it is otherwise; there is no await in it
_get_client ==
    IF _client = PyNone
    THEN /\ Len(http_clients) < MaxClients
         /\ http_clients' = Append(http_clients, "open")
         /\ _client' = AsyncClient(Len(http_clients) + 1)
    ELSE UNCHANGED <<_client, http_clients>>
Reply(raise, json) == [raise |-> raise, json |-> json]
Raises == {"ConnectError", "HTTPStatusError"}

\* The replies to create_composition: the uid in uid.value, in compositionUid, or in neither
CreateReplies ==
    {Reply(e, PyNone) : e \in Raises}
    \cup {Reply("", [uid |-> Dict(PyStr("c1::local.ehrbase.org::1")), compositionUid |-> Missing]),
          Reply("", [uid |-> Missing, compositionUid |-> PyStr("c2::local.ehrbase.org::1")]),
          Reply("", [uid |-> Missing, compositionUid |-> Missing])}

\* What the caller receives: the HTTP status, the body, the detail of an HTTPException
HttpResponse(status, body, detail) == [status |-> status, body |-> body, detail |-> detail]

(***************************************************************************)
(* The requests                                                            *)
(***************************************************************************)
PatientIds == {"p1", "p404"}

\* The bodies of POST /vital-signs, valid and invalid
Bodies ==
    {VitalSignsCreate(p, e, ra, sy, di, pr) :
        p \in PatientIds, e \in {PyNone, PyStr("enc-1")}, ra \in Datetimes,
        sy \in {PyNone, PyInt(120), PyInt(40)}, di \in {PyNone, PyInt(80)},
        pr \in {PyNone, PyInt(72)}}

Init ==
    /\ now = 0
    /\ registry = {[id |-> "p1", mrn |-> "MRN-1", ehrId |-> "ehr-1", deletedAt |-> PyNone]}
    /\ ARCHETYPES = ARCHETYPES_LITERAL
    /\ pc = "idle"
    /\ op = ""
    /\ data = PyNone
    /\ query_args = PyNone
    /\ ehr_id = PyNone
    /\ flat_composition = PyNone
    /\ calls = <<>>
    /\ result = PyNone
    /\ response = PyNone
    /\ _client = PyNone
    /\ http_clients = <<>>
    /\ db_connected = TRUE
    /\ store = {}
    /\ tasks = <<>>

\* Time passes
Tick ==
    /\ now < MaxTime
    /\ now' = now + 1
    /\ UNCHANGED <<registry, ehrbase_client, db_connected, store, tasks, ARCHETYPES, pc, op, data, query_args, ehr_id,
                   flat_composition, calls, result, response>>

(***************************************************************************)
(* POST /vital-signs: router.record_vital_signs and                        *)
(* ObservationService.record_vital_signs                                   *)
(***************************************************************************)
\* FastAPI builds the VitalSignsCreate from the body (422 when its validators
\* raise) and the handler runs to its first await, find_patient_by_id.
record_request(bodies) ==
    /\ pc = "idle"
    /\ \E body \in bodies :
        /\ op' = "record_vital_signs"
        /\ data' = body
        /\ IF VitalSignsCreate_ok(body)
           THEN pc' = "record_lookup" /\ response' = response
           ELSE pc' = "done" /\ response' = HttpResponse(422, PyNone, "validation error")
    /\ UNCHANGED <<now, registry, ehrbase_client, db_connected, store, tasks, ARCHETYPES, query_args, ehr_id, flat_composition,
                   calls, result>>

record_vital_signs_request == record_request(Bodies)

\* The patient lookup returns: "Patient not found" (404 in the router), or the
\* composition is built and create_composition is called.
record_vital_signs_patient ==
    /\ pc = "record_lookup"
    /\ LET patient == find_patient_by_id(data.patient_id)
       IN  IF patient = {}
           THEN /\ pc' = "done"
                /\ response' = HttpResponse(404, PyNone, "Patient not found")
                /\ UNCHANGED <<ehr_id, flat_composition, calls, ehrbase_client>>
           ELSE /\ _get_client
                /\ ehr_id' = PyStr((CHOOSE row \in patient : TRUE).ehrId)
                /\ flat_composition' = _build_flat_composition(data)
                /\ calls' = Append(calls,
                       [op |-> "create_composition", ehr_id |-> ehr_id',
                        template_id |-> TEMPLATE_ID, composition |-> flat_composition',
                        format |-> "FLAT"])
                /\ pc' = "record_create"
                /\ UNCHANGED response
    /\ UNCHANGED <<now, registry, db_connected, store, tasks, ARCHETYPES, op, data, query_args, result>>

\* record_composition_uid with a fallback identifier that carries no tag
record_composition_uid_untagged(reply) ==
    LET placeholder == PyStr(isoformat(utcnow))
    IN  IF reply.raise # ""
        THEN placeholder
        ELSE LET uid == dict_get(reply.json.uid, Dict(Missing))
             IN  IF uid.t # "dict"
                 THEN placeholder
                 ELSE py_or(dict_get(uid.value, PyStr("")),
                            dict_get(reply.json.compositionUid, PyStr("")))

\* composition_uid after the try/except around create_composition
record_composition_uid(reply) ==
    LET placeholder == PyStr("placeholder-" \o isoformat(utcnow))
    IN  IF reply.raise # ""
        THEN placeholder
        ELSE LET uid == dict_get(reply.json.uid, Dict(Missing))
             IN  IF uid.t # "dict"
                 THEN placeholder  \* AttributeError, caught by except Exception
                 ELSE py_or(dict_get(uid.value, PyStr("")),
                            dict_get(reply.json.compositionUid, PyStr("")))

\* record_vital_signs_reply with a metadata builder that stores the path with its
\* "/magnitude" leaf back into the table instead of building a new string
record_vital_signs_reply_writes_table ==
    /\ pc = "record_create"
    /\ \E reply \in CreateReplies :
        LET composition_uid == record_composition_uid(reply)
            r == VitalSignsResponse(composition_uid, data.patient_id, data.encounter_id,
                     data.recorded_at, data.systolic, data.diastolic, data.pulse_rate,
                     utcnow, _build_openehr_metadata(composition_uid, ehr_id, data))
        IN  /\ result' = reply
            /\ response' = IF VitalSignsResponse_ok(r)
                           THEN HttpResponse(201, r, "")
                           ELSE HttpResponse(404, PyNone, "validation error")
            /\ pc' = "done"
    /\ ARCHETYPES' = [ARCHETYPES EXCEPT !.pulse.rate_path =
                            ARCHETYPES_LITERAL.pulse.rate_path \o "/magnitude"]
    /\ UNCHANGED <<now, registry, ehrbase_client, db_connected, store, tasks, op, data, query_args, ehr_id,
                   flat_composition, calls>>

\* record_vital_signs_reply that calls create_composition a second time after a
\* first failure
record_vital_signs_reply_retries ==
    /\ pc = "record_create"
    /\ \E reply \in CreateReplies :
        IF reply.raise # "" /\ Len(calls) < 2
        THEN /\ calls' = Append(calls, calls[1])
             /\ result' = reply
             /\ UNCHANGED <<pc, response>>
        ELSE LET composition_uid == record_composition_uid(reply)
                 r == VitalSignsResponse(composition_uid, data.patient_id, data.encounter_id,
                          data.recorded_at, data.systolic, data.diastolic, data.pulse_rate,
                          utcnow, _build_openehr_metadata(composition_uid, ehr_id, data))
             IN  /\ result' = reply
                 /\ response' = IF VitalSignsResponse_ok(r)
                                THEN HttpResponse(201, r, "")
                                ELSE HttpResponse(404, PyNone, "validation error")
                 /\ pc' = "done"
                 /\ UNCHANGED calls
    /\ UNCHANGED <<now, registry, ehrbase_client, db_connected, store, tasks, ARCHETYPES, op, data, query_args, ehr_id,
                   flat_composition>>

\* record_vital_signs after create_composition returned or raised: the
\* VitalSignsResponse is built from the reply and the body d, and the router
\* answers 201
record_response(reply, d, the_ehr_id) ==
    LET composition_uid == record_composition_uid(reply)
        r == VitalSignsResponse(composition_uid, d.patient_id, d.encounter_id,
                 d.recorded_at, d.systolic, d.diastolic, d.pulse_rate,
                 utcnow, _build_openehr_metadata(composition_uid, the_ehr_id, d))
    IN  IF VitalSignsResponse_ok(r)
        THEN HttpResponse(201, r, "")
        ELSE HttpResponse(404, PyNone, "validation error")

\* create_composition returns or raises; the response is built
record_vital_signs_reply ==
    /\ pc = "record_create"
    /\ \E reply \in CreateReplies :
        /\ result' = reply
        /\ response' = record_response(reply, data, ehr_id)
        /\ pc' = "done"
    /\ UNCHANGED <<now, registry, ehrbase_client, db_connected, store, tasks, ARCHETYPES, op, data, query_args, ehr_id,
                   flat_composition, calls>>

\* The response is delivered; the next request starts from fresh locals
request_done ==
    /\ pc = "done"
    /\ pc' = "idle"
    /\ op' = ""
    /\ data' = PyNone
    /\ query_args' = PyNone
    /\ ehr_id' = PyNone
    /\ flat_composition' = PyNone
    /\ calls' = <<>>
    /\ result' = PyNone
    /\ response' = PyNone
    /\ UNCHANGED <<now, registry, ehrbase_client, db_connected, store, tasks, ARCHETYPES>>

(***************************************************************************)
(* ehrbase/queries.py                                                      *)
(***************************************************************************)
VITAL_SIGNS_QUERY ==
    "\n"
    \o "SELECT\n"
    \o "    c/uid/value as composition_id,\n"
    \o "    c/context/start_time/value as recorded_at,\n"
    \o "    bp/data[at0001]/events[at0006]/data[at0003]/items[at0004]/value/magnitude as systolic,\n"
    \o "    bp/data[at0001]/events[at0006]/data[at0003]/items[at0005]/value/magnitude as diastolic,\n"
    \o "    pulse/data[at0002]/events[at0003]/data[at0001]/items[at0004]/value/magnitude as pulse_rate\n"
    \o "FROM EHR e\n"
    \o "CONTAINS COMPOSITION c\n"
    \o "CONTAINS (\n"
    \o "    OBSERVATION bp[openEHR-EHR-OBSERVATION.blood_pressure.v1] OR\n"
    \o "    OBSERVATION pulse[openEHR-EHR-OBSERVATION.pulse.v1]\n"
    \o ")\n"
    \o "WHERE e/ehr_id/value = $ehr_id\n"
    \o "ORDER BY c/context/start_time/value DESC\n"

VITAL_SIGNS_DATE_RANGE_QUERY ==
    "\n"
    \o "SELECT\n"
    \o "    c/uid/value as composition_id,\n"
    \o "    c/context/start_time/value as recorded_at,\n"
    \o "    bp/data[at0001]/events[at0006]/data[at0003]/items[at0004]/value/magnitude as systolic,\n"
    \o "    bp/data[at0001]/events[at0006]/data[at0003]/items[at0005]/value/magnitude as diastolic,\n"
    \o "    pulse/data[at0002]/events[at0003]/data[at0001]/items[at0004]/value/magnitude as pulse_rate\n"
    \o "FROM EHR e\n"
    \o "CONTAINS COMPOSITION c\n"
    \o "CONTAINS (\n"
    \o "    OBSERVATION bp[openEHR-EHR-OBSERVATION.blood_pressure.v1] OR\n"
    \o "    OBSERVATION pulse[openEHR-EHR-OBSERVATION.pulse.v1]\n"
    \o ")\n"
    \o "WHERE e/ehr_id/value = $ehr_id\n"
    \o "AND c/context/start_time/value >= $from_date\n"
    \o "AND c/context/start_time/value <= $to_date\n"
    \o "ORDER BY c/context/start_time/value DESC\n"

(***************************************************************************)
(* GET /vital-signs: router.list_vital_signs and                           *)
(* ObservationService.get_vital_signs_for_patient                          *)
(***************************************************************************)
Min(a, b) == IF a < b THEN a ELSE b
Max(a, b) == IF a > b THEN a ELSE b

\* Timestamps as the store writes them
StoreTime(n) == PyStr(IsoMinute \o TwoDigits(n) \o "Z")

\* The rows the store may send, well-formed and malformed, in the column order
\* composition_id, recorded_at, systolic, diastolic, pulse_rate
RowCatalog ==
    { <<PyStr("c1"), StoreTime(0), PyInt(120), PyInt(80), PyInt(72)>>,
      <<PyStr("c2"), StoreTime(0), PyInt(120), PyInt(80), PyNone>>,
      <<PyStr("c3"), PyStr(IsoMinute \o "00+00:00"), PyNone, PyNone, PyFloat(72)>>,
      <<PyStr("c4"), StoreTime(0), PyStr("abc"), PyInt(80), PyInt(72)>>,
      <<PyStr("c5"), PyStr("yesterday"), PyStr("120"), PyStr("80"), PyStr("")>>,
      <<PyStr("c6"), PyNone, PyInt(120), PyInt(80), PyInt(0)>>,
      <<PyStr("c7"), StoreTime(59), PyInt(120), PyInt(80), PyInt(72)>>,
      <<PyNone, StoreTime(0), PyInt(120), PyInt(80), PyInt(72)>>,
      <<PyStr("c9"), StoreTime(0), PyInt(120), PyNone, PyInt(72)>>,
      <<PyStr("c10"), StoreTime(0), PyNone, PyNone, PyNone>>,
      <<PyStr("c11"), StoreTime(0), PyInt(400), PyInt(80), PyNone>>,
      <<PyStr("c12"), StoreTime(0), PyInt(120), PyInt(80)>>,
      <<PyStr("c13"), StoreTime(0), PyInt(120), PyInt(80), PyInt(72), PyStr("extra")>> }

RowLists == UNION {[1..n -> RowCatalog] : n \in 0..MaxRows}

Column(name) == [name |-> name]

\* The column descriptors: complete, or the last descriptor without a name
ColumnLists ==
    { <<Column(PyStr("composition_id")), Column(PyStr("recorded_at")),
        Column(PyStr("systolic")), Column(PyStr("diastolic")), Column(PyStr("pulse_rate"))>>,
      <<Column(PyStr("composition_id")), Column(PyStr("recorded_at")),
        Column(PyStr("systolic")), Column(PyStr("diastolic")), Column(Missing)>> }

\* The replies to execute_aql
AqlReplies ==
    {Reply(e, PyNone) : e \in Raises}
    \cup {Reply("", [rows |-> rows, columns |-> columns]) :
            rows \in RowLists, columns \in ColumnLists}

\* The query arguments FastAPI accepts: skip >= 0, 1 <= limit <= 1000
QueryArgs ==
    [patient_id : PatientIds,
     from_date : {PyNone, PyDatetime(0, "UTC")},
     to_date : {PyNone, PyDatetime(MaxTime, "UTC")},
     skip : 0..(MaxRows + 1),
     limit : 1..(MaxRows + 1)]

\* The handler runs to its first await, find_patient_by_id, with arguments of argset
list_request(argset) ==
    /\ pc = "idle"
    /\ \E args \in argset :
        /\ op' = "get_vital_signs_for_patient"
        /\ query_args' = args
        /\ pc' = "list_lookup"
    /\ UNCHANGED <<now, registry, ehrbase_client, db_connected, store, tasks, ARCHETYPES, data, ehr_id, flat_composition,
                   calls, result, response>>

list_vital_signs_request == list_request(QueryArgs)

\* select_query with "or" for "and": one bound is enough for the date-bounded query
select_query_one_bound(the_ehr_id, from_date, to_date) ==
    IF truthy(from_date) \/ truthy(to_date)
    THEN [query |-> VITAL_SIGNS_DATE_RANGE_QUERY,
          params |-> ("ehr_id" :> the_ehr_id)
                  @@ ("from_date" :> PyStr(isoformat(from_date)))
                  @@ ("to_date" :> PyStr(isoformat(to_date)))]
    ELSE [query |-> VITAL_SIGNS_QUERY,
          params |-> ("ehr_id" :> the_ehr_id)]

\* select_query that writes the EHR id into the query text instead of binding it
select_query_interpolated(the_ehr_id, from_date, to_date) ==
    IF truthy(from_date) /\ truthy(to_date)
    THEN [query |-> VITAL_SIGNS_DATE_RANGE_QUERY \o "AND e/ehr_id/value = '" \o the_ehr_id.s \o "'\n",
          params |-> ("ehr_id" :> the_ehr_id)
                  @@ ("from_date" :> PyStr(isoformat(from_date)))
                  @@ ("to_date" :> PyStr(isoformat(to_date)))]
    ELSE [query |-> VITAL_SIGNS_QUERY \o "AND e/ehr_id/value = '" \o the_ehr_id.s \o "'\n",
          params |-> ("ehr_id" :> the_ehr_id)]

\* The query and its parameters (service.py, "Choose query based on date filters")
select_query(the_ehr_id, from_date, to_date) ==
    IF truthy(from_date) /\ truthy(to_date)
    THEN [query |-> VITAL_SIGNS_DATE_RANGE_QUERY,
          params |-> ("ehr_id" :> the_ehr_id)
                  @@ ("from_date" :> PyStr(isoformat(from_date)))
                  @@ ("to_date" :> PyStr(isoformat(to_date)))]
    ELSE [query |-> VITAL_SIGNS_QUERY,
          params |-> ("ehr_id" :> the_ehr_id)]

\* The patient lookup returns: an empty list when there is no patient, or the
\* query is chosen and execute_aql is called.
list_vital_signs_patient ==
    /\ pc = "list_lookup"
    /\ LET patient == find_patient_by_id(query_args.patient_id)
       IN  IF patient = {}
           THEN /\ pc' = "done"
                /\ response' = HttpResponse(200, [items |-> <<>>, total |-> 0], "")
                /\ UNCHANGED <<ehr_id, calls, ehrbase_client>>
           ELSE /\ _get_client
                /\ ehr_id' = PyStr((CHOOSE row \in patient : TRUE).ehrId)
                /\ LET q == select_query(ehr_id', query_args.from_date, query_args.to_date)
                   IN  calls' = Append(calls,
                           [op |-> "execute_aql", query |-> q.query,
                            parameters |-> q.params])
                /\ pc' = "list_query"
                /\ UNCHANGED response
    /\ UNCHANGED <<now, registry, db_connected, store, tasks, ARCHETYPES, op, data, query_args, flat_composition,
                   result>>

\* col_names = [c.get("name", f"col{i}") for i, c in enumerate(columns)]
col_names(columns) ==
    [i \in 1..Len(columns) |-> dict_get(columns[i].name, PyStr("col" \o ToString(i - 1)))]

\* dict(zip(col_names, row, strict=False)).get(key): the value of the last pair
\* with that key, Missing when no pair has it
row_dict_get(names, row, key) ==
    LET idx == {i \in 1..Min(Len(names), Len(row)) : names[i] = PyStr(key)}
    IN  IF idx = {} THEN Missing ELSE row[CHOOSE i \in idx : \A j \in idx : j <= i]

\* int(v) raises no ValueError / TypeError
int_ok(v) == v.t \in {"int", "float"} \/ (v.t = "str" /\ AllDigits(v.s))

\* int(v)
int(v) == IF v.t = "str" THEN PyInt(DigitsVal(v.s)) ELSE PyInt(v.n)

\* int(v) if v else None
int_or_none(v) == IF truthy(v) THEN int(v) ELSE PyNone

\* The loop body without the except around the parse of recorded_at: a
\* timestamp that does not parse raises
reconstruct_row_without_fallback(columns, row, patient_id, the_ehr_id) ==
    LET names == col_names(columns)
        composition_uid == dict_get(row_dict_get(names, row, "composition_id"), PyStr(""))
        recorded_at_str == dict_get(row_dict_get(names, row, "recorded_at"), PyStr(""))
        replaced == str_replace(recorded_at_str.s, "Z", "+00:00")
        recorded_at ==
            IF recorded_at_str.t = "str" /\ fromisoformat_ok(replaced)
            THEN fromisoformat(replaced)
            ELSE utcnow  \* except (ValueError, AttributeError)
        systolic == dict_get(row_dict_get(names, row, "systolic"), PyNone)
        diastolic == dict_get(row_dict_get(names, row, "diastolic"), PyNone)
        pulse_rate == dict_get(row_dict_get(names, row, "pulse_rate"), PyNone)
        parsed == recorded_at_str.t = "str" /\ fromisoformat_ok(replaced)
        ints_ok == \A v \in {systolic, diastolic, pulse_rate} : truthy(v) => int_ok(v)
        create == VitalSignsCreate(patient_id, PyNone, recorded_at,
                      int_or_none(systolic), int_or_none(diastolic), int_or_none(pulse_rate))
        item == VitalSignsResponse(composition_uid, patient_id, PyNone, recorded_at,
                    int_or_none(systolic), int_or_none(diastolic), int_or_none(pulse_rate),
                    recorded_at, _build_openehr_metadata(composition_uid, the_ehr_id, create))
    IN  IF parsed /\ ints_ok /\ VitalSignsCreate_ok(create) /\ VitalSignsResponse_ok(item)
        THEN [raises |-> FALSE, item |-> item]
        ELSE [raises |-> TRUE, item |-> PyNone]

\* The body of the loop over the rows of the page: [raises, item]
reconstruct_row(columns, row, patient_id, the_ehr_id) ==
    LET names == col_names(columns)
        composition_uid == dict_get(row_dict_get(names, row, "composition_id"), PyStr(""))
        recorded_at_str == dict_get(row_dict_get(names, row, "recorded_at"), PyStr(""))
        replaced == str_replace(recorded_at_str.s, "Z", "+00:00")
        recorded_at ==
            IF recorded_at_str.t = "str" /\ fromisoformat_ok(replaced)
            THEN fromisoformat(replaced)
            ELSE utcnow  \* except (ValueError, AttributeError)
        systolic == dict_get(row_dict_get(names, row, "systolic"), PyNone)
        diastolic == dict_get(row_dict_get(names, row, "diastolic"), PyNone)
        pulse_rate == dict_get(row_dict_get(names, row, "pulse_rate"), PyNone)
        ints_ok == \A v \in {systolic, diastolic, pulse_rate} : truthy(v) => int_ok(v)
        create == VitalSignsCreate(patient_id, PyNone, recorded_at,
                      int_or_none(systolic), int_or_none(diastolic), int_or_none(pulse_rate))
        item == VitalSignsResponse(composition_uid, patient_id, PyNone, recorded_at,
                    int_or_none(systolic), int_or_none(diastolic), int_or_none(pulse_rate),
                    recorded_at, _build_openehr_metadata(composition_uid, the_ehr_id, create))
    IN  IF ints_ok /\ VitalSignsCreate_ok(create) /\ VitalSignsResponse_ok(item)
        THEN [raises |-> FALSE, item |-> item]
        ELSE [raises |-> TRUE, item |-> PyNone]

\* rows[skip : skip + limit]
page(rows, skip, limit) == SubSeq(rows, skip + 1, Min(skip + limit, Len(rows)))

\* The loop over rows[skip : skip + limit] and the return: an exception of one
\* row leaves the handler (500)
parse_results(json, args, the_ehr_id) ==
    LET rows == json.rows
        sel == page(rows, args.skip, args.limit)
        outs == [i \in 1..Len(sel) |->
                    reconstruct_row(json.columns, sel[i], args.patient_id, the_ehr_id)]
    IN  IF \E i \in 1..Len(sel) : outs[i].raises
        THEN HttpResponse(500, PyNone, "Internal Server Error")
        ELSE HttpResponse(200,
                 [items |-> [i \in 1..Len(sel) |-> outs[i].item],
                  total |-> Len(rows)], "")

\* list_response without the try/except around execute_aql
list_response_without_except(reply, args, the_ehr_id) ==
    IF reply.raise # ""
    THEN HttpResponse(500, PyNone, "Internal Server Error")
    ELSE parse_results(reply.json, args, the_ehr_id)

\* What get_vital_signs_for_patient answers to a reply of execute_aql
list_response(reply, args, the_ehr_id) ==
    IF reply.raise # ""
    THEN HttpResponse(200, [items |-> <<>>, total |-> 0], "")
    ELSE parse_results(reply.json, args, the_ehr_id)

\* execute_aql returns or raises with one of replies; the rows of the page are
\* reconstructed
list_reply(replies) ==
    /\ pc = "list_query"
    /\ \E reply \in replies :
        /\ result' = reply
        /\ response' = list_response(reply, query_args, ehr_id)
        /\ pc' = "done"
    /\ UNCHANGED <<now, registry, ehrbase_client, db_connected, store, tasks, ARCHETYPES, op, data, query_args, ehr_id,
                   flat_composition, calls>>

list_vital_signs_reply == list_reply(AqlReplies)

(***************************************************************************)
(* GET /vital-signs/{composition_uid}: router.get_vital_signs,             *)
(* ObservationService.get_vital_signs and _parse_composition_to_response   *)
(***************************************************************************)
CompositionUids == {"c1::local.ehrbase.org::1"}

\* The path and query parameters of the single-record endpoints
SingleArgs == [composition_uid : CompositionUids, patient_id : PatientIds]

\* The documents the store may return for a composition: the flat document
\* as it was written, a flat document with the context start time and decimal
\* magnitudes, a canonical document (no flat path), a flat document with one
\* blood-pressure magnitude, and one with a magnitude that is no number
StoredCompositions ==
    { _build_flat_composition(
          VitalSignsCreate("p1", PyNone, PyDatetime(0, "UTC"), PyInt(120), PyInt(80), PyInt(72))),
      ("vital_signs/context/start_time" :> StoreTime(0))
          @@ ("vital_signs/blood_pressure:0/any_event:0/systolic|magnitude" :> PyFloat(120))
          @@ ("vital_signs/blood_pressure:0/any_event:0/systolic|unit" :> PyStr("mm[Hg]"))
          @@ ("vital_signs/blood_pressure:0/any_event:0/diastolic|magnitude" :> PyFloat(80))
          @@ ("vital_signs/blood_pressure:0/any_event:0/diastolic|unit" :> PyStr("mm[Hg]")),
      ("archetype_node_id" :> PyStr("openEHR-EHR-COMPOSITION.encounter.v1"))
          @@ ("_type" :> PyStr("COMPOSITION")),
      ("vital_signs/context/start_time" :> StoreTime(0))
          @@ ("vital_signs/blood_pressure:0/any_event:0/systolic|magnitude" :> PyInt(120)),
      ("vital_signs/context/start_time" :> PyStr("yesterday"))
          @@ ("vital_signs/pulse_heart_beat:0/any_event:0/rate|magnitude" :> PyStr("abc")) }

\* The replies to get_composition: raise_for_status raises HTTPStatusError when
\* the composition does not exist
GetReplies ==
    {Reply(e, PyNone) : e \in Raises}
    \cup {Reply("", c) : c \in StoredCompositions}

\* The handler runs to its first await, find_patient_by_id
get_vital_signs_request ==
    /\ pc = "idle"
    /\ \E args \in SingleArgs :
        /\ op' = "get_vital_signs"
        /\ query_args' = args
        /\ pc' = "get_lookup"
    /\ UNCHANGED <<now, registry, ehrbase_client, db_connected, store, tasks, ARCHETYPES, data, ehr_id, flat_composition,
                   calls, result, response>>

\* The patient lookup returns: None (404) when there is no patient, or
\* get_composition is called
get_vital_signs_patient ==
    /\ pc = "get_lookup"
    /\ LET patient == find_patient_by_id(query_args.patient_id)
       IN  IF patient = {}
           THEN /\ pc' = "done"
                /\ response' = HttpResponse(404, PyNone, "Vital signs not found")
                /\ UNCHANGED <<ehr_id, calls, ehrbase_client>>
           ELSE /\ _get_client
                /\ ehr_id' = PyStr((CHOOSE row \in patient : TRUE).ehrId)
                /\ calls' = Append(calls,
                       [op |-> "get_composition", ehr_id |-> ehr_id',
                        composition_uid |-> query_args.composition_uid])
                /\ pc' = "get_fetch"
                /\ UNCHANGED response
    /\ UNCHANGED <<now, registry, db_connected, store, tasks, ARCHETYPES, op, data, query_args, flat_composition,
                   result>>

\* The value of the key of composition that contains pattern and none of the
\* patterns tested before it in the if / elif chain; Missing when there is none
composition_get(composition, pattern, before) ==
    LET keys == {k \in DOMAIN composition :
                    Contains(k, pattern) /\ \A b \in before : ~Contains(k, b)}
    IN  IF keys = {} THEN Missing ELSE composition[CHOOSE k \in keys : TRUE]

\* ObservationService._parse_composition_to_response: [raises, item]
_parse_composition_to_response(composition, composition_uid, patient_id, the_ehr_id) ==
    LET systolic_value == dict_get(composition_get(composition, "systolic|magnitude", {}), PyNone)
        diastolic_value == dict_get(composition_get(composition, "diastolic|magnitude",
                               {"systolic|magnitude"}), PyNone)
        pulse_rate_value == dict_get(composition_get(composition, "rate|magnitude",
                                {"systolic|magnitude", "diastolic|magnitude"}), PyNone)
        start_time == composition_get(composition, "start_time",
                          {"systolic|magnitude", "diastolic|magnitude", "rate|magnitude"})
        replaced == str_replace(start_time.s, "Z", "+00:00")
        recorded_at ==
            IF start_time.t = "str" /\ fromisoformat_ok(replaced)
            THEN fromisoformat(replaced)
            ELSE utcnow  \* no such key, or except ValueError: pass
        ints_ok == \A v \in {systolic_value, diastolic_value, pulse_rate_value} :
                        truthy(v) => int_ok(v)
        create == VitalSignsCreate(patient_id, PyNone, recorded_at,
                      int_or_none(systolic_value), int_or_none(diastolic_value),
                      int_or_none(pulse_rate_value))
        item == VitalSignsResponse(PyStr(composition_uid), patient_id, PyNone, recorded_at,
                    int_or_none(systolic_value), int_or_none(diastolic_value),
                    int_or_none(pulse_rate_value), recorded_at,
                    _build_openehr_metadata(PyStr(composition_uid), the_ehr_id, create))
    IN  IF ints_ok /\ VitalSignsCreate_ok(create) /\ VitalSignsResponse_ok(item)
        THEN [raises |-> FALSE, item |-> item]
        ELSE [raises |-> TRUE, item |-> PyNone]

\* get_response that answers a failed get_composition with a record of defaults
get_response_defaults(reply, args, the_ehr_id) ==
    IF reply.raise # ""
    THEN HttpResponse(200,
             VitalSignsResponse(PyStr(args.composition_uid), args.patient_id, PyNone, utcnow,
                 PyNone, PyNone, PyNone, utcnow,
                 [composition_uid |-> PyStr(args.composition_uid), template_id |-> TEMPLATE_ID,
                  archetype_ids |-> <<ARCHETYPES.composition.id>>, ehr_id |-> the_ehr_id,
                  path_mappings |-> <<>>]), "")
    ELSE LET out == _parse_composition_to_response(reply.json, args.composition_uid,
                        args.patient_id, the_ehr_id)
         IN  IF out.raises
             THEN HttpResponse(404, PyNone, "Vital signs not found")
             ELSE HttpResponse(200, out.item, "")

\* What the router answers to a reply of get_composition: the try of
\* get_vital_signs covers the call and the parse, None becomes 404
get_response(reply, args, the_ehr_id) ==
    IF reply.raise # ""
    THEN HttpResponse(404, PyNone, "Vital signs not found")
    ELSE LET out == _parse_composition_to_response(reply.json, args.composition_uid,
                        args.patient_id, the_ehr_id)
         IN  IF out.raises
             THEN HttpResponse(404, PyNone, "Vital signs not found")
             ELSE HttpResponse(200, out.item, "")

\* get_composition returns or raises
get_vital_signs_reply ==
    /\ pc = "get_fetch"
    /\ \E reply \in GetReplies :
        /\ result' = reply
        /\ response' = get_response(reply, query_args, ehr_id)
        /\ pc' = "done"
    /\ UNCHANGED <<now, registry, ehrbase_client, db_connected, store, tasks, ARCHETYPES, op, data, query_args, ehr_id,
                   flat_composition, calls>>

(***************************************************************************)
(* DELETE /vital-signs/{composition_uid}: router.delete_vital_signs and    *)
(* ObservationService.delete_vital_signs                                   *)
(***************************************************************************)
\* The handler runs to its first await, find_patient_by_id
delete_vital_signs_request ==
    /\ pc = "idle"
    /\ \E args \in SingleArgs :
        /\ op' = "delete_vital_signs"
        /\ query_args' = args
        /\ pc' = "delete_lookup"
    /\ UNCHANGED <<now, registry, ehrbase_client, db_connected, store, tasks, ARCHETYPES, data, ehr_id, flat_composition,
                   calls, result, response>>

\* The URL of a composition
composition_url(the_ehr_id, composition_uid) ==
    "/openehr/v1/ehr/" \o the_ehr_id \o "/composition/" \o composition_uid

\* delete_vital_signs_patient that sends the DELETE before it looks at the patient
delete_vital_signs_patient_calls_first ==
    /\ pc = "delete_lookup"
    /\ LET patient == find_patient_by_id(query_args.patient_id)
       IN  /\ _get_client
           /\ calls' = Append(calls,
                  [op |-> "delete",
                   url |-> composition_url("", query_args.composition_uid)])
           /\ IF patient = {}
              THEN /\ pc' = "done"
                   /\ response' = HttpResponse(404, PyNone,
                                      "Vital signs not found or delete failed")
                   /\ UNCHANGED ehr_id
              ELSE /\ ehr_id' = PyStr((CHOOSE row \in patient : TRUE).ehrId)
                   /\ pc' = "delete_call"
                   /\ UNCHANGED response
    /\ UNCHANGED <<now, registry, db_connected, store, tasks, ARCHETYPES, op, data, query_args, flat_composition,
                   result>>

\* The patient lookup returns: False (404) when there is no patient, or the
\* DELETE is sent through the client of the gateway
delete_vital_signs_patient ==
    /\ pc = "delete_lookup"
    /\ LET patient == find_patient_by_id(query_args.patient_id)
       IN  IF patient = {}
           THEN /\ pc' = "done"
                /\ response' = HttpResponse(404, PyNone,
                                   "Vital signs not found or delete failed")
                /\ UNCHANGED <<ehr_id, calls, ehrbase_client>>
           ELSE /\ _get_client
                /\ ehr_id' = PyStr((CHOOSE row \in patient : TRUE).ehrId)
                /\ calls' = Append(calls,
                       [op |-> "delete",
                        url |-> composition_url(ehr_id'.s, query_args.composition_uid)])
                /\ pc' = "delete_call"
                /\ UNCHANGED response
    /\ UNCHANGED <<now, registry, db_connected, store, tasks, ARCHETYPES, op, data, query_args, flat_composition,
                   result>>

\* The status codes of the store for a DELETE and a GET of a composition:
\* deleted, found, not found, precondition failed
StatusCodes == {204, 200, 404, 412}

\* The replies to client.delete: a transport error or a response
DeleteReplies ==
    {Reply("ConnectError", PyNone)}
    \cup {Reply("", [status_code |-> code]) : code \in StatusCodes}

\* What the router answers to a reply of the DELETE: success is the status 204
delete_response(reply) ==
    IF reply.raise = "" /\ reply.json.status_code = 204
    THEN HttpResponse(204, PyNone, "")
    ELSE HttpResponse(404, PyNone, "Vital signs not found or delete failed")

\* client.delete returns or raises
delete_vital_signs_reply ==
    /\ pc = "delete_call"
    /\ \E reply \in DeleteReplies :
        /\ result' = reply
        /\ response' = delete_response(reply)
        /\ pc' = "done"
    /\ UNCHANGED <<now, registry, ehrbase_client, db_connected, store, tasks, ARCHETYPES, op, data, query_args, ehr_id,
                   flat_composition, calls>>

(***************************************************************************)
(* GET /openehr/compositions/{composition_uid}: router.get_raw_composition *)
(* and ObservationService.get_raw_composition                              *)
(***************************************************************************)
RawArgs ==
    [composition_uid : CompositionUids, patient_id : PatientIds,
     format : {"FLAT", "STRUCTURED"}]

\* The handler runs to its first await, find_patient_by_id
get_raw_composition_request ==
    /\ pc = "idle"
    /\ \E args \in RawArgs :
        /\ op' = "get_raw_composition"
        /\ query_args' = args
        /\ pc' = "raw_lookup"
    /\ UNCHANGED <<now, registry, ehrbase_client, db_connected, store, tasks, ARCHETYPES, data, ehr_id, flat_composition,
                   calls, result, response>>

\* The patient lookup returns: None (404) when there is no patient, or the GET
\* is sent through the client of the gateway
get_raw_composition_patient ==
    /\ pc = "raw_lookup"
    /\ LET patient == find_patient_by_id(query_args.patient_id)
       IN  IF patient = {}
           THEN /\ pc' = "done"
                /\ response' = HttpResponse(404, PyNone, "Composition not found")
                /\ UNCHANGED <<ehr_id, calls, ehrbase_client>>
           ELSE /\ _get_client
                /\ ehr_id' = PyStr((CHOOSE row \in patient : TRUE).ehrId)
                /\ calls' = Append(calls,
                       [op |-> "get",
                        url |-> composition_url(ehr_id'.s, query_args.composition_uid),
                        params |-> [format |-> query_args.format]])
                /\ pc' = "raw_call"
                /\ UNCHANGED response
    /\ UNCHANGED <<now, registry, db_connected, store, tasks, ARCHETYPES, op, data, query_args, flat_composition,
                   result>>

\* The replies to client.get: a transport error, or a response with its
\* status and, for 200, its document
RawReplies ==
    {Reply("ConnectError", PyNone)}
    \cup {Reply("", [status_code |-> 200, json |-> c]) : c \in StoredCompositions}
    \cup {Reply("", [status_code |-> code, json |-> PyNone]) : code \in StatusCodes \ {200}}

\* What the router answers to a reply of the GET
raw_response(reply, args) ==
    IF reply.raise = "" /\ reply.json.status_code = 200
    THEN HttpResponse(200,
             [format |-> args.format, template_id |-> TEMPLATE_ID,
              composition |-> reply.json.json], "")
    ELSE HttpResponse(404, PyNone, "Composition not found")

\* client.get returns or raises
get_raw_composition_reply ==
    /\ pc = "raw_call"
    /\ \E reply \in RawReplies :
        /\ result' = reply
        /\ response' = raw_response(reply, query_args)
        /\ pc' = "done"
    /\ UNCHANGED <<now, registry, ehrbase_client, db_connected, store, tasks, ARCHETYPES, op, data, query_args, ehr_id,
                   flat_composition, calls>>

Next ==
    \/ Tick
    \/ record_vital_signs_request
    \/ record_vital_signs_patient
    \/ record_vital_signs_reply
    \/ list_vital_signs_request
    \/ list_vital_signs_patient
    \/ list_vital_signs_reply
    \/ get_vital_signs_request
    \/ get_vital_signs_patient
    \/ get_vital_signs_reply
    \/ delete_vital_signs_request
    \/ delete_vital_signs_patient
    \/ delete_vital_signs_reply
    \/ get_raw_composition_request
    \/ get_raw_composition_patient
    \/ get_raw_composition_reply
    \/ request_done

Spec == Init /\ [][Next]_vars

(***************************************************************************)
(* The reconstruction of rows in get_vital_signs_for_patient, on a wider   *)
(* choice of rows and column descriptors and a narrower choice of query    *)
(* arguments                                                               *)
(***************************************************************************)
\* Rows with a falsy systolic value, without their last two values, and with a
\* timestamp that is a number or the empty text
RowCatalogWide ==
    RowCatalog
    \cup { <<PyStr("c14"), StoreTime(0), PyInt(0), PyInt(80), PyInt(72)>>,
           <<PyStr("c15"), StoreTime(0), PyInt(0), PyNone, PyInt(72)>>,
           <<PyStr("c16"), StoreTime(0), PyInt(120)>>,
           <<PyStr("c17"), PyInt(5), PyInt(120), PyInt(80), PyInt(72)>>,
           <<PyStr("c18"), PyStr(""), PyInt(120), PyInt(80), PyInt(72)>> }

RowListsWide == UNION {[1..n -> RowCatalogWide] : n \in 0..MaxRows}

\* The column descriptors: those of ColumnLists, the descriptor of diastolic
\* without a name, or no descriptor for pulse_rate
ColumnListsWide ==
    ColumnLists
    \cup { <<Column(PyStr("composition_id")), Column(PyStr("recorded_at")),
             Column(PyStr("systolic")), Column(Missing), Column(PyStr("pulse_rate"))>>,
           <<Column(PyStr("composition_id")), Column(PyStr("recorded_at")),
             Column(PyStr("systolic")), Column(PyStr("diastolic"))>> }

AqlRepliesWide ==
    {Reply("", [rows |-> rows, columns |-> columns]) :
        rows \in RowListsWide, columns \in ColumnListsWide}

\* Requests without date bounds for a page of up to MaxRows rows
QueryArgsRows ==
    [patient_id : PatientIds, from_date : {PyNone}, to_date : {PyNone},
     skip : 0..1, limit : {MaxRows}]

list_rows_request == list_request(QueryArgsRows)

list_rows_reply == list_reply(AqlRepliesWide)

NextRows ==
    \/ Tick
    \/ list_rows_request
    \/ list_vital_signs_patient
    \/ list_rows_reply
    \/ request_done

SpecRows == Init /\ [][NextRows]_vars

(***************************************************************************)
(* The round trip of a record: _build_flat_composition writes it, the      *)
(* store answers the vital-signs query with the values written, and        *)
(* get_vital_signs_for_patient reconstructs the row                        *)
(***************************************************************************)
\* The columns the two queries select
VitalSignsColumns ==
    << Column(PyStr("composition_id")), Column(PyStr("recorded_at")),
       Column(PyStr("systolic")), Column(PyStr("diastolic")), Column(PyStr("pulse_rate")) >>

\* The value the composition c has at key, null when it has none
composition_value(c, key) == IF key \in DOMAIN c THEN c[key] ELSE PyNone

\* The row of the query for the composition c stored under uid: the context time
\* and the three magnitudes
serialized_row(uid, c) ==
    << PyStr(uid),
       composition_value(c, "ctx/time"),
       composition_value(c, "vital_signs/blood_pressure:0/any_event:0/systolic|magnitude"),
       composition_value(c, "vital_signs/blood_pressure:0/any_event:0/diastolic|magnitude"),
       composition_value(c, "vital_signs/pulse_heart_beat:0/any_event:0/rate|magnitude") >>

\* A valid record r of a registered patient, at some time
InitRoundTrip ==
    /\ now \in Instants
    /\ registry = {[id |-> "p1", mrn |-> "MRN-1", ehrId |-> "ehr-1", deletedAt |-> PyNone]}
    /\ ARCHETYPES = ARCHETYPES_LITERAL
    /\ pc = "round_trip_record"
    /\ op = "round_trip"
    /\ data \in {body \in Bodies :
                    VitalSignsCreate_ok(body) /\ find_patient_by_id(body.patient_id) # {}}
    /\ query_args = PyNone
    /\ ehr_id = PyStr("ehr-1")
    /\ flat_composition = PyNone
    /\ calls = <<>>
    /\ result = PyNone
    /\ response = PyNone
    /\ _client = PyNone
    /\ http_clients = <<>>
    /\ db_connected = TRUE
    /\ store = {}
    /\ tasks = <<>>

\* _build_flat_composition(r)
round_trip_build ==
    /\ pc = "round_trip_record"
    /\ flat_composition' = _build_flat_composition(data)
    /\ pc' = "round_trip_built"
    /\ UNCHANGED <<now, registry, ehrbase_client, db_connected, store, tasks, ARCHETYPES, op, data, query_args, ehr_id, calls,
                   result, response>>

\* The store answers a query for the first page with the one row of the composition
round_trip_query ==
    /\ pc = "round_trip_built"
    /\ query_args' = [patient_id |-> data.patient_id, from_date |-> PyNone,
                      to_date |-> PyNone, skip |-> 0, limit |-> 1]
    /\ result' = Reply("", [rows |-> <<serialized_row("c1", flat_composition)>>,
                            columns |-> VitalSignsColumns])
    /\ pc' = "round_trip_query"
    /\ UNCHANGED <<now, registry, ehrbase_client, db_connected, store, tasks, ARCHETYPES, op, data, ehr_id, flat_composition,
                   calls, response>>

\* get_vital_signs_for_patient reconstructs the row
round_trip_reconstruct ==
    /\ pc = "round_trip_query"
    /\ response' = list_response(result, query_args, ehr_id)
    /\ pc' = "round_trip_done"
    /\ UNCHANGED <<now, registry, ehrbase_client, db_connected, store, tasks, ARCHETYPES, op, data, query_args, ehr_id,
                   flat_composition, calls, result>>

NextRoundTrip ==
    \/ Tick
    \/ round_trip_build
    \/ round_trip_query
    \/ round_trip_reconstruct

SpecRoundTrip == InitRoundTrip /\ [][NextRoundTrip]_vars

(***************************************************************************)
(* The application around the handlers: the shared ehrbase_client          *)
(* singleton (ehrbase/client.py), its close() at shutdown, the prisma      *)
(* connection and GET /health (main.py).  Several coroutines run on the    *)
(* event loop; a step is the code of one coroutine between two awaits.     *)
(***************************************************************************)
MaxTasks == 2

\* the request in flight of the handlers above
request_in_flight ==
    <<pc, op, data, query_args, ehr_id, flat_composition, calls, result, response>>

Task(the_pc, the_op, client, the_response) ==
    [pc |-> the_pc, op |-> the_op, client |-> client, response |-> the_response]

IdleTask == Task("idle", "", PyNone, PyNone)

\* The application after startup: prisma.connect() succeeded or raised
\* (lifespan logs the error and goes on), no gateway call made yet
InitGateway ==
    /\ now = 0
    /\ registry = {[id |-> "p1", mrn |-> "MRN-1", ehrId |-> "ehr-1", deletedAt |-> PyNone]}
    /\ ARCHETYPES = ARCHETYPES_LITERAL
    /\ pc = "idle"
    /\ op = ""
    /\ data = PyNone
    /\ query_args = PyNone
    /\ ehr_id = PyNone
    /\ flat_composition = PyNone
    /\ calls = <<>>
    /\ result = PyNone
    /\ response = PyNone
    /\ _client = PyNone
    /\ http_clients = <<>>
    /\ db_connected \in BOOLEAN
    /\ store = {}
    /\ tasks = [t \in 1..MaxTasks |-> IdleTask]

\* A gateway method (create_ehr, create_composition, execute_aql, ...) starts:
\* client = await self._get_client(), then the request is sent on that client
gateway_call_start(t) ==
    /\ tasks[t].pc = "idle"
    /\ _get_client
    /\ tasks' = [tasks EXCEPT ![t] = Task("awaiting", "call", _client', PyNone)]
    /\ UNCHANGED <<now, registry, ARCHETYPES, request_in_flight, db_connected, store>>

\* The awaited HTTP request of a gateway method returns or raises
gateway_call_reply(t) ==
    /\ tasks[t].pc = "awaiting"
    /\ \E reply \in {"json", "raise"} :
          tasks' = [tasks EXCEPT ![t] = Task("returned", "call", tasks[t].client, reply)]
    /\ UNCHANGED <<now, registry, ARCHETYPES, request_in_flight, ehrbase_client,
                   db_connected, store>>

\* close(): if self._client: await self._client.aclose() ...
close_start(t) ==
    /\ tasks[t].pc = "idle"
    /\ IF _client # PyNone
       THEN /\ http_clients' = [http_clients EXCEPT ![_client.n] =
                                   IF @ = "closed" THEN "closed" ELSE "closing"]
            /\ tasks' = [tasks EXCEPT ![t] = Task("closing", "close", _client, PyNone)]
       ELSE /\ tasks' = [tasks EXCEPT ![t] = Task("returned", "close", PyNone, PyNone)]
            /\ UNCHANGED http_clients
    /\ UNCHANGED <<now, registry, ARCHETYPES, request_in_flight, _client, db_connected,
                   store>>

\* ... aclose() has returned: self._client = None
close_end(t) ==
    /\ tasks[t].pc = "closing"
    /\ http_clients' = [http_clients EXCEPT ![tasks[t].client.n] = "closed"]
    /\ _client' = PyNone
    /\ tasks' = [tasks EXCEPT ![t] = Task("returned", "close", tasks[t].client, PyNone)]
    /\ UNCHANGED <<now, registry, ARCHETYPES, request_in_flight, db_connected, store>>

\* main.health_check: the body and the status of GET /health
health_response(connected) ==
    LET status == IF connected THEN "healthy" ELSE "degraded"
        response_data == ("status" :> status) @@
                         ("database" :> IF connected THEN "connected" ELSE "disconnected")
    IN  IF ~connected
        THEN HttpResponse(503, response_data, PyNone)
        ELSE HttpResponse(200, response_data, PyNone)

\* GET /health; the handler has no await
health_check(t) ==
    /\ tasks[t].pc = "idle"
    /\ tasks' = [tasks EXCEPT ![t] =
                    Task("returned", "health_check", PyNone, health_response(db_connected))]
    /\ UNCHANGED <<now, registry, ARCHETYPES, request_in_flight, ehrbase_client,
                   db_connected, store>>

\* The caller has its result; the coroutine is free for the next operation
task_return(t) ==
    /\ tasks[t].pc = "returned"
    /\ tasks' = [tasks EXCEPT ![t] = IdleTask]
    /\ UNCHANGED <<now, registry, ARCHETYPES, request_in_flight, ehrbase_client,
                   db_connected, store>>

\* prisma.connect() (lifespan startup, the fixture of the tests)
prisma_connect ==
    /\ ~db_connected
    /\ db_connected' = TRUE
    /\ UNCHANGED <<now, registry, ARCHETYPES, request_in_flight, ehrbase_client, store,
                   tasks>>

\* if prisma.is_connected(): await prisma.disconnect() (lifespan shutdown)
prisma_disconnect ==
    /\ db_connected
    /\ db_connected' = FALSE
    /\ UNCHANGED <<now, registry, ARCHETYPES, request_in_flight, ehrbase_client, store,
                   tasks>>

NextGateway ==
    \/ \E t \in 1..MaxTasks : gateway_call_start(t)
    \/ \E t \in 1..MaxTasks : gateway_call_reply(t)
    \/ \E t \in 1..MaxTasks : close_start(t)
    \/ \E t \in 1..MaxTasks : close_end(t)
    \/ \E t \in 1..MaxTasks : health_check(t)
    \/ \E t \in 1..MaxTasks : task_return(t)
    \/ prisma_connect
    \/ prisma_disconnect

SpecGateway == InitGateway /\ [][NextGateway]_vars

(***************************************************************************)
(* patients/service.py and patients/router.py: the patient registry with   *)
(* its soft delete, next to the observation operations that look patients  *)
(* up.  One request is in flight at a time.                                *)
(***************************************************************************)
PatientResponse(row) ==
    [id |-> row.id, mrn |-> row.mrn, ehr_id |-> row.ehrId, created_at |-> row.createdAt]

\* where={..., "deletedAt": None}
not_deleted(rows) == {row \in rows : row.deletedAt = PyNone}

\* order={"createdAt": "desc"}
RECURSIVE order_desc(_)
order_desc(rows) ==
    IF rows = {}
    THEN <<>>
    ELSE LET first == CHOOSE r \in rows : \A q \in rows : q.createdAt <= r.createdAt
         IN  <<first>> \o order_desc(rows \ {first})

\* find_many(where=where_clause, skip=skip, take=limit, order={"createdAt": "desc"})
find_many(rows, skip, take) == page(order_desc(rows), skip, take)

\* Two patients, created one after the other, neither deleted
InitPatients ==
    /\ now = 0
    /\ registry = {[id |-> "p1", mrn |-> "MRN-1", ehrId |-> "ehr-1", deletedAt |-> PyNone,
                    createdAt |-> 0],
                   [id |-> "p2", mrn |-> "MRN-2", ehrId |-> "ehr-2", deletedAt |-> PyNone,
                    createdAt |-> 1]}
    /\ ARCHETYPES = ARCHETYPES_LITERAL
    /\ pc = "idle"
    /\ op = ""
    /\ data = PyNone
    /\ query_args = PyNone
    /\ ehr_id = PyNone
    /\ flat_composition = PyNone
    /\ calls = <<>>
    /\ result = PyNone
    /\ response = PyNone
    /\ _client = PyNone
    /\ http_clients = <<>>
    /\ db_connected = TRUE
    /\ store = {}
    /\ tasks = <<>>

PatientOperations ==
    {"delete_patient", "get_patient", "get_patient_by_mrn", "mrn_exists", "list_patients"}

\* The path and query arguments of the patient routes
PatientArgs ==
    [patient_id : {"p1", "p2", "p404"}, mrn : {"MRN-1", "MRN-2", "MRN-404"},
     skip : 0..1, limit : 1..2, include_deleted : BOOLEAN]

\* A handler of patients/router.py runs to the first await of its service operation
patient_request ==
    /\ pc = "idle"
    /\ \E name \in PatientOperations, args \in PatientArgs :
        /\ op' = name
        /\ query_args' = args
        /\ pc' = "patient_lookup"
    /\ UNCHANGED <<now, registry, ehrbase_client, db_connected, store, tasks, ARCHETYPES,
                   data, ehr_id, flat_composition, calls, result, response>>

\* GET /patients/{patient_id}
get_patient ==
    /\ pc = "patient_lookup"
    /\ op = "get_patient"
    /\ LET patient == not_deleted({row \in registry : row.id = query_args.patient_id})
       IN  response' = IF patient = {}
                       THEN HttpResponse(404, PyNone, "Patient not found")
                       ELSE HttpResponse(200, PatientResponse(CHOOSE row \in patient : TRUE), "")
    /\ pc' = "done"
    /\ UNCHANGED <<now, registry, ehrbase_client, db_connected, store, tasks, ARCHETYPES,
                   op, data, query_args, ehr_id, flat_composition, calls, result>>

\* GET /patients/mrn/{mrn}
get_patient_by_mrn ==
    /\ pc = "patient_lookup"
    /\ op = "get_patient_by_mrn"
    /\ LET patient == not_deleted({row \in registry : row.mrn = query_args.mrn})
       IN  response' = IF patient = {}
                       THEN HttpResponse(404, PyNone, "Patient not found")
                       ELSE HttpResponse(200, PatientResponse(CHOOSE row \in patient : TRUE), "")
    /\ pc' = "done"
    /\ UNCHANGED <<now, registry, ehrbase_client, db_connected, store, tasks, ARCHETYPES,
                   op, data, query_args, ehr_id, flat_composition, calls, result>>

\* GET /patients/mrn/{mrn}/exists
mrn_exists ==
    /\ pc = "patient_lookup"
    /\ op = "mrn_exists"
    /\ LET patient == not_deleted({row \in registry : row.mrn = query_args.mrn})
       IN  response' = HttpResponse(200, [exists |-> patient # {}], "")
    /\ pc' = "done"
    /\ UNCHANGED <<now, registry, ehrbase_client, db_connected, store, tasks, ARCHETYPES,
                   op, data, query_args, ehr_id, flat_composition, calls, result>>

\* GET /patients
list_patients ==
    /\ pc = "patient_lookup"
    /\ op = "list_patients"
    /\ LET where_clause == IF query_args.include_deleted THEN registry
                           ELSE not_deleted(registry)
           patients == find_many(where_clause, query_args.skip, query_args.limit)
       IN  response' = HttpResponse(200,
                           [i \in 1..Len(patients) |-> PatientResponse(patients[i])], "")
    /\ pc' = "done"
    /\ UNCHANGED <<now, registry, ehrbase_client, db_connected, store, tasks, ARCHETYPES,
                   op, data, query_args, ehr_id, flat_composition, calls, result>>

\* delete_patient that looks only at whether the row exists
delete_patient_without_deleted_check ==
    /\ pc = "patient_lookup"
    /\ op = "delete_patient"
    /\ LET patient == {row \in registry : row.id = query_args.patient_id}
       IN  IF patient = {}
           THEN /\ response' = HttpResponse(404, PyNone, "Patient not found")
                /\ pc' = "done"
           ELSE /\ pc' = "delete_patient_update"
                /\ UNCHANGED response
    /\ UNCHANGED <<now, registry, ehrbase_client, db_connected, store, tasks, ARCHETYPES,
                   op, data, query_args, ehr_id, flat_composition, calls, result>>

\* DELETE /patients/{patient_id}: find_unique returns; False (404) when there
\* is no row or the row is deleted already
delete_patient ==
    /\ pc = "patient_lookup"
    /\ op = "delete_patient"
    /\ LET patient == {row \in registry : row.id = query_args.patient_id}
       IN  IF patient = {} \/ (CHOOSE row \in patient : TRUE).deletedAt # PyNone
           THEN /\ response' = HttpResponse(404, PyNone, "Patient not found")
                /\ pc' = "done"
           ELSE /\ pc' = "delete_patient_update"
                /\ UNCHANGED response
    /\ UNCHANGED <<now, registry, ehrbase_client, db_connected, store, tasks, ARCHETYPES,
                   op, data, query_args, ehr_id, flat_composition, calls, result>>

\* update(where={"id": patient_id}, data={"deletedAt": datetime.now(UTC)}); True (204)
delete_patient_update ==
    /\ pc = "delete_patient_update"
    /\ registry' = {IF row.id = query_args.patient_id
                    THEN [row EXCEPT !.deletedAt = PyDatetime(now, "UTC")]
                    ELSE row : row \in registry}
    /\ response' = HttpResponse(204, PyNone, "")
    /\ pc' = "done"
    /\ UNCHANGED <<now, ehrbase_client, db_connected, store, tasks, ARCHETYPES,
                   op, data, query_args, ehr_id, flat_composition, calls, result>>

\* Bodies of POST /vital-signs with all three measurements
BodiesComplete ==
    {body \in Bodies : /\ body.encounter_id = PyNone
                       /\ body.systolic = PyInt(120)
                       /\ body.diastolic = PyInt(80)
                       /\ body.pulse_rate = PyInt(72)}

record_complete_request == record_request(BodiesComplete)

\* The store fails, or answers the query with one row
AqlRepliesOneRow ==
    {Reply(e, PyNone) : e \in Raises}
    \cup {Reply("", [rows |-> <<row>>, columns |-> columns]) :
            row \in {<<PyStr("c1"), StoreTime(0), PyInt(120), PyInt(80), PyInt(72)>>},
            columns \in ColumnLists}

list_one_row_reply == list_reply(AqlRepliesOneRow)

NextPatients ==
    \/ Tick
    \/ patient_request
    \/ get_patient
    \/ get_patient_by_mrn
    \/ mrn_exists
    \/ list_patients
    \/ delete_patient
    \/ delete_patient_update
    \/ record_complete_request
    \/ record_vital_signs_patient
    \/ record_vital_signs_reply
    \/ list_rows_request
    \/ list_vital_signs_patient
    \/ list_one_row_reply
    \/ get_vital_signs_request
    \/ get_vital_signs_patient
    \/ get_vital_signs_reply
    \/ delete_vital_signs_request
    \/ delete_vital_signs_patient
    \/ delete_vital_signs_reply
    \/ request_done

SpecPatients == InitPatients /\ [][NextPatients]_vars

(***************************************************************************)
(* A record written and read back: create_composition and get_composition  *)
(* (ehrbase/client.py) against a store that keeps what it was sent.  The   *)
(* store answers a read in the format of its choice.                       *)
(***************************************************************************)
MaxStored == 1

\* The uid the store gives to its n-th composition
stored_uid(n) == "c" \o ToString(n) \o "::local.ehrbase.org::1"

\* The documents the store may answer a GET with for a composition it was sent
\* as flat: the flat document as sent, the flat document with the context of
\* the composition in place of the ctx/ keys, or the canonical document
Renderings(composition) ==
    LET paths == {k \in DOMAIN composition : ~StartsWith(k, "ctx/")}
    IN  { composition,
          [k \in paths \cup {"vital_signs/context/start_time"} |->
              IF k \in paths THEN composition[k] ELSE composition["ctx/time"]],
          ("archetype_node_id" :> PyStr("openEHR-EHR-COMPOSITION.encounter.v1"))
              @@ ("_type" :> PyStr("COMPOSITION")) }

\* POST /composition is answered: the store keeps the document under a new
\* uid and returns it, or the call raises
create_composition ==
    /\ pc = "record_create"
    /\ \/ /\ Cardinality(store) < MaxStored
          /\ LET uid == stored_uid(Cardinality(store) + 1)
                 reply == Reply("", [uid |-> Dict(PyStr(uid)), compositionUid |-> Missing])
             IN  /\ store' = store \cup {[uid |-> uid, ehr_id |-> ehr_id,
                                          composition |-> flat_composition,
                                          submitted |-> data]}
                 /\ result' = reply
                 /\ response' = record_response(reply, data, ehr_id)
       \/ /\ \E reply \in {Reply(e, PyNone) : e \in Raises} :
                /\ result' = reply
                /\ response' = record_response(reply, data, ehr_id)
          /\ UNCHANGED store
    /\ pc' = "done"
    /\ UNCHANGED <<now, registry, ehrbase_client, db_connected, tasks, ARCHETYPES, op,
                   data, query_args, ehr_id, flat_composition, calls>>

StoredArgs ==
    [composition_uid : {stored_uid(n) : n \in 1..(MaxStored + 1)}, patient_id : PatientIds]

\* GET /vital-signs/{composition_uid}: the handler runs to its first await
get_stored_request ==
    /\ pc = "idle"
    /\ \E args \in StoredArgs :
        /\ op' = "get_vital_signs"
        /\ query_args' = args
        /\ pc' = "get_lookup"
    /\ UNCHANGED <<now, registry, ehrbase_client, db_connected, store, tasks, ARCHETYPES,
                   data, ehr_id, flat_composition, calls, result, response>>

\* GET /composition/{uid} is answered: a rendering of the stored document,
\* HTTPStatusError when the EHR holds no such composition, or the call fails
get_composition ==
    /\ pc = "get_fetch"
    /\ LET held == {c \in store : /\ c.uid = query_args.composition_uid
                                  /\ c.ehr_id = ehr_id}
           replies == IF held = {}
                      THEN {Reply(e, PyNone) : e \in Raises}
                      ELSE {Reply("", json) :
                               json \in Renderings((CHOOSE c \in held : TRUE).composition)}
                           \cup {Reply("ConnectError", PyNone)}
       IN  \E reply \in replies :
              /\ result' = reply
              /\ response' = get_response(reply, query_args, ehr_id)
    /\ pc' = "done"
    /\ UNCHANGED <<now, registry, ehrbase_client, db_connected, store, tasks, ARCHETYPES,
                   op, data, query_args, ehr_id, flat_composition, calls>>

NextStore ==
    \/ Tick
    \/ record_vital_signs_request
    \/ record_vital_signs_patient
    \/ create_composition
    \/ get_stored_request
    \/ get_vital_signs_patient
    \/ get_composition
    \/ request_done

SpecStore == Init /\ [][NextStore]_vars

(***************************************************************************)
(* Concurrent invocations of the observation operations: each coroutine    *)
(* has its own locals; ARCHETYPES, the registry and ehrbase_client are     *)
(* shared.  A coroutine is suspended at the patient lookup and at the      *)
(* store call.                                                             *)
(***************************************************************************)
ConcurrentOperations ==
    {"record_vital_signs", "get_vital_signs_for_patient", "get_vital_signs",
     "delete_vital_signs"}

\* One request of each operation for a registered and for an unknown patient
ConcurrentRequests ==
    {[op |-> "record_vital_signs", data |-> body, query_args |-> PyNone] :
        body \in {b \in BodiesComplete : b.recorded_at = PyDatetime(0, "UTC")}}
    \cup {[op |-> "get_vital_signs_for_patient", data |-> PyNone, query_args |-> args] :
            args \in {a \in QueryArgsRows : a.skip = 0}}
    \cup {[op |-> name, data |-> PyNone, query_args |-> args] :
            name \in {"get_vital_signs", "delete_vital_signs"}, args \in SingleArgs}

\* The replies of the store to the call of an operation
ConcurrentReplies(name) ==
    CASE name = "record_vital_signs" ->
             {r \in CreateReplies : r.raise # "HTTPStatusError"}
      [] name = "get_vital_signs_for_patient" ->
             {r \in AqlRepliesOneRow :
                 /\ r.raise # "HTTPStatusError"
                 /\ r.raise = "" => r.json.columns[5].name # Missing}
      [] name = "get_vital_signs" ->
             {Reply("HTTPStatusError", PyNone)}
             \cup {Reply("", c) : c \in Renderings(_build_flat_composition(
                      VitalSignsCreate("p1", PyNone, PyDatetime(0, "UTC"),
                          PyInt(120), PyInt(80), PyInt(72))))}
      [] name = "delete_vital_signs" ->
             {r \in DeleteReplies : r.raise = "" /\ r.json.status_code \in {204, 404}}

Invocation(request) ==
    [pc |-> "lookup", op |-> request.op, data |-> request.data,
     query_args |-> request.query_args, ehr_id |-> PyNone, calls |-> <<>>,
     result |-> PyNone, response |-> PyNone]

IdleInvocation ==
    [pc |-> "idle", op |-> "", data |-> PyNone, query_args |-> PyNone, ehr_id |-> PyNone,
     calls |-> <<>>, result |-> PyNone, response |-> PyNone]

InitConcurrent ==
    /\ now = 0
    /\ registry = {[id |-> "p1", mrn |-> "MRN-1", ehrId |-> "ehr-1", deletedAt |-> PyNone]}
    /\ ARCHETYPES = ARCHETYPES_LITERAL
    /\ pc = "idle"
    /\ op = ""
    /\ data = PyNone
    /\ query_args = PyNone
    /\ ehr_id = PyNone
    /\ flat_composition = PyNone
    /\ calls = <<>>
    /\ result = PyNone
    /\ response = PyNone
    /\ _client = PyNone
    /\ http_clients = <<>>
    /\ db_connected = TRUE
    /\ store = {}
    /\ tasks = [t \in 1..MaxTasks |-> IdleInvocation]

\* The patient id of an invocation
invocation_patient_id(task) ==
    IF task.op = "record_vital_signs" THEN task.data.patient_id
    ELSE task.query_args.patient_id

\* What an operation answers when the patient lookup finds no patient
patient_not_found_response(name) ==
    CASE name = "record_vital_signs" -> HttpResponse(404, PyNone, "Patient not found")
      [] name = "get_vital_signs_for_patient" ->
             HttpResponse(200, [items |-> <<>>, total |-> 0], "")
      [] name = "get_vital_signs" -> HttpResponse(404, PyNone, "Vital signs not found")
      [] name = "delete_vital_signs" ->
             HttpResponse(404, PyNone, "Vital signs not found or delete failed")

\* The call of the gateway an operation makes for a patient with the_ehr_id
gateway_call(task, the_ehr_id) ==
    CASE task.op = "record_vital_signs" ->
             [op |-> "create_composition", ehr_id |-> the_ehr_id,
              template_id |-> TEMPLATE_ID,
              composition |-> _build_flat_composition(task.data), format |-> "FLAT"]
      [] task.op = "get_vital_signs_for_patient" ->
             LET q == select_query(the_ehr_id, task.query_args.from_date,
                          task.query_args.to_date)
             IN  [op |-> "execute_aql", query |-> q.query, parameters |-> q.params]
      [] task.op = "get_vital_signs" ->
             [op |-> "get_composition", ehr_id |-> the_ehr_id,
              composition_uid |-> task.query_args.composition_uid]
      [] task.op = "delete_vital_signs" ->
             [op |-> "delete",
              url |-> composition_url(the_ehr_id.s, task.query_args.composition_uid)]

\* What an operation answers to the reply of the store
store_reply_response(task, reply, the_ehr_id) ==
    CASE task.op = "record_vital_signs" -> record_response(reply, task.data, the_ehr_id)
      [] task.op = "get_vital_signs_for_patient" ->
             list_response(reply, task.query_args, the_ehr_id)
      [] task.op = "get_vital_signs" -> get_response(reply, task.query_args, the_ehr_id)
      [] task.op = "delete_vital_signs" -> delete_response(reply)

\* A handler is entered and runs to its first await, find_patient_by_id
invocation_start(t) ==
    /\ tasks[t].pc = "idle"
    /\ \E request \in ConcurrentRequests :
          tasks' = [tasks EXCEPT ![t] =
              IF request.op = "record_vital_signs" /\ ~VitalSignsCreate_ok(request.data)
              THEN [Invocation(request) EXCEPT
                       !.pc = "done",
                       !.response = HttpResponse(422, PyNone, "validation error")]
              ELSE Invocation(request)]
    /\ UNCHANGED <<now, registry, ARCHETYPES, request_in_flight, ehrbase_client,
                   db_connected, store>>

\* The patient lookup of coroutine t returns; the call of the store is made
invocation_lookup(t) ==
    /\ tasks[t].pc = "lookup"
    /\ LET patient == find_patient_by_id(invocation_patient_id(tasks[t]))
       IN  IF patient = {}
           THEN /\ tasks' = [tasks EXCEPT ![t].pc = "done",
                                ![t].response = patient_not_found_response(tasks[t].op)]
                /\ UNCHANGED ehrbase_client
           ELSE /\ _get_client
                /\ LET the_ehr_id == PyStr((CHOOSE row \in patient : TRUE).ehrId)
                   IN  tasks' = [tasks EXCEPT
                           ![t].pc = "store",
                           ![t].ehr_id = the_ehr_id,
                           ![t].calls = Append(@, gateway_call(tasks[t], the_ehr_id))]
    /\ UNCHANGED <<now, registry, ARCHETYPES, request_in_flight, db_connected, store>>

\* invocation_reply with a metadata builder that stores the path with its
\* "/magnitude" leaf back into the shared table
invocation_reply_writes_table(t) ==
    /\ tasks[t].pc = "store"
    /\ \E reply \in ConcurrentReplies(tasks[t].op) :
          tasks' = [tasks EXCEPT
              ![t].pc = "done",
              ![t].result = reply,
              ![t].response = store_reply_response(tasks[t], reply, tasks[t].ehr_id)]
    /\ ARCHETYPES' = [ARCHETYPES EXCEPT !.pulse.rate_path =
                            ARCHETYPES_LITERAL.pulse.rate_path \o "/magnitude"]
    /\ UNCHANGED <<now, registry, request_in_flight, ehrbase_client, db_connected, store>>

\* The call of the store of coroutine t returns or raises; the response is built
invocation_reply(t) ==
    /\ tasks[t].pc = "store"
    /\ \E reply \in ConcurrentReplies(tasks[t].op) :
          tasks' = [tasks EXCEPT
              ![t].pc = "done",
              ![t].result = reply,
              ![t].response = store_reply_response(tasks[t], reply, tasks[t].ehr_id)]
    /\ UNCHANGED <<now, registry, ARCHETYPES, request_in_flight, ehrbase_client,
                   db_connected, store>>

\* The response of coroutine t is delivered
invocation_return(t) ==
    /\ tasks[t].pc = "done"
    /\ tasks' = [tasks EXCEPT ![t] = IdleInvocation]
    /\ UNCHANGED <<now, registry, ARCHETYPES, request_in_flight, ehrbase_client,
                   db_connected, store>>

NextConcurrent ==
    \/ \E t \in 1..MaxTasks : invocation_start(t)
    \/ \E t \in 1..MaxTasks : invocation_lookup(t)
    \/ \E t \in 1..MaxTasks : invocation_reply(t)
    \/ \E t \in 1..MaxTasks : invocation_return(t)

SpecConcurrent == InitConcurrent /\ [][NextConcurrent]_vars

(***************************************************************************)
(* Properties                                                              *)
(***************************************************************************)
\* record_vital_signs has built its composition and called the store
Built == op = "record_vital_signs" /\ pc \in {"record_create", "done"} /\ Len(calls) > 0

\* record_vital_signs has the reply of create_composition
Recorded == Built /\ pc = "done"

\* get_vital_signs_for_patient has the reply of execute_aql
Listed == op = "get_vital_signs_for_patient" /\ pc = "done" /\ Len(calls) > 0

\* The record invariant of a vital-signs record is violated: exactly one of
\* systolic and diastolic, or neither blood pressure nor pulse rate
RecordInvariantViolated(d) ==
    \/ (d.systolic = PyNone) # (d.diastolic = PyNone)
    \/ d.systolic = PyNone /\ d.diastolic = PyNone /\ d.pulse_rate = PyNone

GatewayOps == {"create_composition", "execute_aql", "get_composition", "delete"}

\* C1: a submitted record that violates the record invariant is rejected by
\* validation (422) and no gateway call is made for it.
C1_InvalidRecordRejectedBeforeStore ==
    (op = "record_vital_signs" /\ RecordInvariantViolated(data))
        => /\ pc = "done"
           /\ response.status = 422
           /\ \A i \in 1..Len(calls) : calls[i].op \notin GatewayOps

C1_Witness ==
    /\ op = "record_vital_signs"
    /\ pc = "done"
    /\ data.systolic # PyNone /\ data.diastolic = PyNone
    /\ response.status = 422

\* C2: when create_composition fails (transport failure or rejection) for a
\* patient that was found, the caller still gets a VitalSignsResponse (201) whose
\* id and openehr_metadata.composition_uid start with "placeholder-" and whose
\* vitals and recorded_at are the submitted ones.
C2_WriteFailureYieldsPlaceholder ==
    (Recorded /\ result.raise # "")
        => /\ response.status = 201
           /\ response.body.id.t = "str"
           /\ StartsWith(response.body.id.s, "placeholder-")
           /\ response.body.openehr_metadata.composition_uid.t = "str"
           /\ StartsWith(response.body.openehr_metadata.composition_uid.s, "placeholder-")
           /\ response.body.systolic = data.systolic
           /\ response.body.diastolic = data.diastolic
           /\ response.body.pulse_rate = data.pulse_rate
           /\ response.body.recorded_at = data.recorded_at

C2_Witness ==
    /\ Recorded
    /\ result.raise = "HTTPStatusError"
    /\ response.status = 201
    /\ response.body.id.s = "placeholder-" \o isoformat(utcnow)

\* C3: whatever rows the store returns, get_vital_signs_for_patient answers
\* with a list: no row of the page aborts the batch, every row of the page is
\* returned.
C3_MalformedRowNeverAborts ==
    (Listed /\ result.raise = "")
        => /\ response.status = 200
           /\ Len(response.body.items)
                = Len(page(result.json.rows, query_args.skip, query_args.limit))

\* C4: when execute_aql fails, the answer is the empty list (items = [],
\* total = 0), not a failure.
C4_QueryFailureYieldsEmptyList ==
    (Listed /\ result.raise # "")
        => /\ response.status = 200
           /\ response.body.items = <<>>
           /\ response.body.total = 0

C4_Witness ==
    /\ Listed
    /\ result.raise = "ConnectError"
    /\ response.status = 200
    /\ response.body.total = 0

\* C5: for a store result of N rows, skip = k and limit = m, the answer has
\* min(m, max(0, N - k)) items, they are the reconstructions of the rows
\* k .. k + m - 1 in the order of the store, and total = N.
C5_Pagination ==
    (Listed /\ result.raise = "")
        => LET N == Len(result.json.rows)
               k == query_args.skip
               m == query_args.limit
           IN  /\ response.status = 200
               /\ Len(response.body.items) = Min(m, Max(0, N - k))
               /\ response.body.total = N
               /\ \A i \in 1..Len(response.body.items) :
                    response.body.items[i].id = result.json.rows[k + i][1]

\* The pagination of C5 in the answers that are lists (no row of the page raised)
PaginationOfLists ==
    (Listed /\ result.raise = "" /\ response.status = 200)
        => LET N == Len(result.json.rows)
               k == query_args.skip
               m == query_args.limit
           IN  /\ Len(response.body.items) = Min(m, Max(0, N - k))
               /\ response.body.total = N
               /\ \A i \in 1..Len(response.body.items) :
                    response.body.items[i].id = result.json.rows[k + i][1]

BP_PATH == "vital_signs/blood_pressure:0/any_event:0"
PULSE_PATH == "vital_signs/pulse_heart_beat:0/any_event:0"
BpKeys == {BP_PATH \o "/systolic|magnitude", BP_PATH \o "/systolic|unit",
           BP_PATH \o "/diastolic|magnitude", BP_PATH \o "/diastolic|unit",
           BP_PATH \o "/time"}
PulseKeys == {PULSE_PATH \o "/rate|magnitude", PULSE_PATH \o "/rate|unit",
              PULSE_PATH \o "/time"}
CtxKeys == {"ctx/language", "ctx/territory", "ctx/time"}

\* C6: with systolic and diastolic present the composition holds, under the
\* blood-pressure sub-path, the two submitted magnitudes, the unit "mm[Hg]" twice
\* and an event time; with pulse_rate present it holds, under the pulse sub-path,
\* the submitted rate, the unit "/min" and an event time.
C6_FlatCompositionGroups ==
    Built =>
        LET c == flat_composition
        IN  /\ (data.systolic # PyNone /\ data.diastolic # PyNone)
                => /\ BpKeys \subseteq DOMAIN c
                   /\ c[BP_PATH \o "/systolic|magnitude"] = data.systolic
                   /\ c[BP_PATH \o "/systolic|unit"] = PyStr("mm[Hg]")
                   /\ c[BP_PATH \o "/diastolic|magnitude"] = data.diastolic
                   /\ c[BP_PATH \o "/diastolic|unit"] = PyStr("mm[Hg]")
                   /\ c[BP_PATH \o "/time"] = PyStr(isoformat(data.recorded_at))
            /\ data.pulse_rate # PyNone
                => /\ PulseKeys \subseteq DOMAIN c
                   /\ c[PULSE_PATH \o "/rate|magnitude"] = data.pulse_rate
                   /\ c[PULSE_PATH \o "/rate|unit"] = PyStr("/min")
                   /\ c[PULSE_PATH \o "/time"] = PyStr(isoformat(data.recorded_at))
            /\ calls[1].composition = c

C6_Witness ==
    /\ Built
    /\ data.systolic = PyInt(120) /\ data.diastolic = PyInt(80)
    /\ data.pulse_rate = PyInt(72)
    /\ flat_composition[BP_PATH \o "/systolic|magnitude"] = PyInt(120)
    /\ flat_composition[PULSE_PATH \o "/rate|magnitude"] = PyInt(72)

\* C7: the composition has no key under the blood-pressure sub-path unless
\* systolic and diastolic are both present, no key under the pulse sub-path
\* unless pulse_rate is present, and a group that has one key has all its keys.
C7_NoAbsentOrPartialGroup ==
    Built =>
        LET keys == DOMAIN flat_composition
            bp == {k \in keys : StartsWith(k, BP_PATH)}
            pulse == {k \in keys : StartsWith(k, PULSE_PATH)}
        IN  /\ (data.systolic = PyNone \/ data.diastolic = PyNone) => bp = {}
            /\ data.pulse_rate = PyNone => pulse = {}
            /\ bp # {} => bp = BpKeys
            /\ pulse # {} => pulse = PulseKeys
            /\ keys = CtxKeys \cup bp \cup pulse

C7_Witness ==
    /\ Built
    /\ data.systolic = PyNone /\ data.diastolic = PyNone
    /\ {k \in DOMAIN flat_composition : StartsWith(k, PULSE_PATH)} = PulseKeys
    /\ {k \in DOMAIN flat_composition : StartsWith(k, BP_PATH)} = {}

\* The three context fields of a composition
Context(c) == [k \in CtxKeys |-> c[k]]

\* C8 as stated: the composition holds the three context fields and they are the
\* same for every payload.
C8_ContextIndependentOfPayload ==
    Built =>
        /\ CtxKeys \subseteq DOMAIN flat_composition
        /\ \A d \in Bodies :
            Context(_build_flat_composition(d)) = Context(flat_composition)

\* C8, amended: the composition always holds ctx/language = "en",
\* ctx/territory = "US" and ctx/time; ctx/time is the ISO-8601 form of the
\* record's recorded_at (not the time of submission), so the three fields are
\* the same for all payloads with the same recorded_at, whatever their vitals.
C8_ContextFields ==
    Built =>
        /\ CtxKeys \subseteq DOMAIN flat_composition
        /\ flat_composition["ctx/language"] = PyStr("en")
        /\ flat_composition["ctx/territory"] = PyStr("US")
        /\ flat_composition["ctx/time"] = PyStr(isoformat(data.recorded_at))
        /\ \A d \in Bodies :
            d.recorded_at = data.recorded_at
                => Context(_build_flat_composition(d)) = Context(flat_composition)

C8_Witness ==
    /\ Built
    /\ data.recorded_at.n < now
    /\ flat_composition["ctx/time"] = PyStr(isoformat(data.recorded_at))
    /\ flat_composition["ctx/time"] # PyStr(isoformat(utcnow))

\* C9: the two builders are free of side effects and repeatable: the table
\* ARCHETYPES keeps its initial value, the handler's steps leave the submitted
\* record as it was, the only gateway call of record_vital_signs is its own
\* create_composition, and building again from the same input in a later state
\* gives the composition and the metadata that were built before.
C9_BuildersPure ==
    /\ [](/\ ARCHETYPES = ARCHETYPES_LITERAL
          /\ Built
                => /\ flat_composition = _build_flat_composition(data)
                   /\ Len(calls) = 1
                   /\ calls[1].op = "create_composition"
          /\ (Recorded /\ response.status = 201)
                => response.body.openehr_metadata
                     = _build_openehr_metadata(response.body.id, ehr_id, data))
    /\ [][(pc \in {"record_lookup", "record_create"})
            => (data' = data /\ ARCHETYPES' = ARCHETYPES)]_vars

C9_Witness ==
    /\ Recorded
    /\ response.status = 201
    /\ now > response.body.created_at.n
    /\ Len(response.body.openehr_metadata.path_mappings) = 3
    /\ response.body.openehr_metadata
         = _build_openehr_metadata(response.body.id, ehr_id, data)

\* C10: with from_date and to_date both given, VITAL_SIGNS_DATE_RANGE_QUERY is
\* executed with the three parameters ehr_id, from_date, to_date (the bounds in
\* ISO-8601); in every other case VITAL_SIGNS_QUERY with the one parameter ehr_id.
C10_QuerySelection ==
    (op = "get_vital_signs_for_patient" /\ Len(calls) > 0)
        => LET c == calls[1]
               from_date == query_args.from_date
               to_date == query_args.to_date
           IN  /\ Len(calls) = 1
               /\ c.op = "execute_aql"
               /\ c.parameters["ehr_id"] = ehr_id
               /\ IF from_date # PyNone /\ to_date # PyNone
                  THEN /\ c.query = VITAL_SIGNS_DATE_RANGE_QUERY
                       /\ DOMAIN c.parameters = {"ehr_id", "from_date", "to_date"}
                       /\ c.parameters["from_date"].t = "str"
                       /\ c.parameters["to_date"].t = "str"
                       /\ fromisoformat_ok(c.parameters["from_date"].s)
                       /\ fromisoformat_ok(c.parameters["to_date"].s)
                       /\ fromisoformat(c.parameters["from_date"].s) = from_date
                       /\ fromisoformat(c.parameters["to_date"].s) = to_date
                  ELSE /\ c.query = VITAL_SIGNS_QUERY
                       /\ c.query # VITAL_SIGNS_DATE_RANGE_QUERY
                       /\ DOMAIN c.parameters = {"ehr_id"}

C10_Witness ==
    /\ op = "get_vital_signs_for_patient"
    /\ Len(calls) = 1
    /\ query_args.from_date # PyNone /\ query_args.to_date # PyNone
    /\ calls[1].query = VITAL_SIGNS_DATE_RANGE_QUERY
    /\ DOMAIN calls[1].parameters = {"ehr_id", "from_date", "to_date"}


\* The values the caller of get_vital_signs_for_patient supplies, as text
CallerValues ==
    {query_args.patient_id, ehr_id.s}
    \cup {isoformat(d) : d \in {query_args.from_date, query_args.to_date} \ {PyNone}}

\* C11: the query text get_vital_signs_for_patient sends is, character for
\* character, one of the two fixed templates; the values of the caller are in
\* the named parameters and never in the query text.
C11_QueryTextIsFixedTemplate ==
    (op = "get_vital_signs_for_patient" /\ Len(calls) > 0) =>
        \A i \in 1..Len(calls) :
            /\ calls[i].op = "execute_aql"
            /\ calls[i].query \in {VITAL_SIGNS_QUERY, VITAL_SIGNS_DATE_RANGE_QUERY}
            /\ pc = "list_query" => \A v \in CallerValues : ~Contains(calls[i].query, v)
            /\ calls[i].parameters["ehr_id"] = ehr_id
            /\ \A k \in DOMAIN calls[i].parameters :
                    calls[i].parameters[k].s \in CallerValues

\* A date-bounded query of a found patient has been sent
C11_Witness ==
    /\ op = "get_vital_signs_for_patient"
    /\ Len(calls) = 1
    /\ pc = "list_query"
    /\ truthy(query_args.from_date)
    /\ truthy(query_args.to_date)
    /\ calls[1].query = VITAL_SIGNS_DATE_RANGE_QUERY


\* The records the current answer carries: the record of a 201, the items of a list
ResponseItems ==
    IF Recorded /\ response.status = 201 THEN {response.body}
    ELSE IF Listed /\ response.status = 200
         THEN {response.body.items[i] : i \in 1..Len(response.body.items)}
         ELSE {}

\* How many times x occurs in the list seq
Count(seq, x) == Cardinality({i \in 1..Len(seq) : seq[i] = x})

\* C12: the archetype-id list of the metadata holds the composition archetype id,
\* the blood-pressure id exactly when systolic and diastolic are both present and
\* the pulse id exactly when pulse_rate is present, each once, and no other id.
C12_ArchetypeIds ==
    \A item \in ResponseItems :
        LET ids == item.openehr_metadata.archetype_ids
            has_bp == item.systolic # PyNone /\ item.diastolic # PyNone
            has_pulse == item.pulse_rate # PyNone
        IN  /\ Count(ids, ARCHETYPES_LITERAL.composition.id) = 1
            /\ Count(ids, ARCHETYPES_LITERAL.blood_pressure.id) = (IF has_bp THEN 1 ELSE 0)
            /\ Count(ids, ARCHETYPES_LITERAL.pulse.id) = (IF has_pulse THEN 1 ELSE 0)
            /\ Len(ids) = 1 + (IF has_bp THEN 1 ELSE 0) + (IF has_pulse THEN 1 ELSE 0)

\* A recorded blood pressure without pulse has the metadata of two archetypes
C12_Witness ==
    /\ Recorded
    /\ response.status = 201
    /\ response.body.systolic = PyInt(120)
    /\ response.body.pulse_rate = PyNone
    /\ Len(response.body.openehr_metadata.archetype_ids) = 2

\* The values of the key field in the mappings of the list seq, in order
MappedFields(seq) == [i \in 1..Len(seq) |-> seq[i].field]

\* C13: the path mappings are the two mappings "systolic" and "diastolic" exactly
\* when both blood-pressure fields are present and the mapping "pulse_rate"
\* exactly when pulse_rate is present: none for an absent field, none twice.
C13_PathMappings ==
    \A item \in ResponseItems :
        LET fields == MappedFields(item.openehr_metadata.path_mappings)
            has_bp == item.systolic # PyNone /\ item.diastolic # PyNone
            has_pulse == item.pulse_rate # PyNone
        IN  /\ Count(fields, "systolic") = (IF has_bp THEN 1 ELSE 0)
            /\ Count(fields, "diastolic") = (IF has_bp THEN 1 ELSE 0)
            /\ Count(fields, "pulse_rate") = (IF has_pulse THEN 1 ELSE 0)
            /\ Len(fields) = (IF has_bp THEN 2 ELSE 0) + (IF has_pulse THEN 1 ELSE 0)

\* A listed record of a pulse alone has the one mapping of the pulse
C13_Witness ==
    /\ Listed
    /\ response.status = 200
    /\ \E i \in 1..Len(response.body.items) :
        /\ response.body.items[i].systolic = PyNone
        /\ response.body.items[i].pulse_rate = PyInt(72)
        /\ MappedFields(response.body.items[i].openehr_metadata.path_mappings) = <<"pulse_rate">>

EndsWith(s, suffix) ==
    Len(s) >= Len(suffix) /\ SubSeq(s, Len(s) - Len(suffix) + 1, Len(s)) = suffix

\* The "|unit" key that is the sibling of a "|magnitude" key
UnitKey(flat_path) == SubSeq(flat_path, 1, Len(flat_path) - Len("|magnitude")) \o "|unit"

\* C14: for every recorded record and every path mapping of its metadata, the
\* flat path is a key of the composition built for the same record, the value at
\* that key is the value of the mapping, the sibling "|unit" key holds the unit of
\* the mapping, the archetype path ends in "/magnitude" and the archetype id is
\* one of the archetype ids of the metadata.
C14_BuilderMetadataAgreement ==
    (Recorded /\ response.status = 201) =>
        LET c == flat_composition
            md == response.body.openehr_metadata
        IN  \A i \in 1..Len(md.path_mappings) :
                LET m == md.path_mappings[i]
                IN  /\ m.flat_path \in DOMAIN c
                    /\ c[m.flat_path] = m.value
                    /\ EndsWith(m.flat_path, "|magnitude")
                    /\ UnitKey(m.flat_path) \in DOMAIN c
                    /\ c[UnitKey(m.flat_path)] = PyStr(m.unit)
                    /\ EndsWith(m.archetype_path, "/magnitude")
                    /\ Count(md.archetype_ids, m.archetype_id) = 1

\* A record with the three vitals has been recorded with three mappings
C14_Witness ==
    /\ Recorded
    /\ response.status = 201
    /\ Len(response.body.openehr_metadata.path_mappings) = 3
    /\ flat_composition[PULSE_PATH \o "/rate|unit"] = PyStr("/min")


\* The rows of the page of the current list request
PageRows == page(result.json.rows, query_args.skip, query_args.limit)

\* The value the row has for the logical column key: Missing when it has none
RowValue(row, key) == row_dict_get(col_names(result.json.columns), row, key)

\* Every row of the page but the i-th is reconstructed when taken alone
OtherRowsReconstructed(i) ==
    \A j \in (1..Len(PageRows)) \ {i} :
        ~reconstruct_row(result.json.columns, PageRows[j],
                         query_args.patient_id, ehr_id).raises

NumericColumns == {"systolic", "diastolic", "pulse_rate"}

\* C15: a row whose value for a numeric column is present but falsy (0 or "")
\* is reconstructed as a record in which that field is absent, and every
\* non-falsy numeric value is converted to an integer.
C15_FalsyAbsentOthersInteger ==
    (Listed /\ result.raise = "") =>
        \A i \in 1..Len(PageRows) : \A f \in NumericColumns :
            LET v == RowValue(PageRows[i], f)
            IN  (OtherRowsReconstructed(i) /\ v \notin {Missing, PyNone}
                    /\ (truthy(v) => int_ok(v)))
                => /\ response.status = 200
                   /\ response.body.items[i][f] = (IF truthy(v) THEN int(v) ELSE PyNone)


\* The timestamps datetime.fromisoformat accepts after the replacement of "Z"
ParsableTimestamps ==
    {StoreTime(n) : n \in 0..59}
    \cup {PyStr(IsoMinute \o TwoDigits(n) \o tz) : n \in 0..59, tz \in {"", "+00:00"}}

\* The row with a timestamp that parses in place of its own
WithGoodTimestamp(row) == [row EXCEPT ![2] = StoreTime(0)]

\* C16: a timestamp with a trailing "Z" is parsed as the same instant with the
\* offset +00:00; when the timestamp does not parse (unparsable text, empty text,
\* null or a value that is not text) recorded_at is the current time and the
\* record is produced whenever the row with a parsable timestamp would be.
C16_TimestampParseAndFallback ==
    (Listed /\ result.raise = "") =>
        \A i \in 1..Len(PageRows) :
            LET ts == PageRows[i][2]
            IN  /\ \A n \in 0..59 :
                    (ts = StoreTime(n) /\ response.status = 200)
                        => response.body.items[i].recorded_at = PyDatetime(n, "UTC")
                /\ (/\ ts \notin ParsableTimestamps
                    /\ OtherRowsReconstructed(i)
                    /\ ~reconstruct_row(result.json.columns, WithGoodTimestamp(PageRows[i]),
                                        query_args.patient_id, ehr_id).raises)
                   => /\ response.status = 200
                      /\ response.body.items[i].recorded_at.t = "datetime"
                      /\ response.body.items[i].recorded_at.s = ""
                      /\ response.body.items[i].recorded_at.n <= now

\* A page with a "Z" timestamp, a null timestamp and a timestamp that is a number
\* has been listed
C16_Witness ==
    /\ Listed
    /\ result.raise = ""
    /\ response.status = 200
    /\ \E i \in 1..Len(PageRows) : PageRows[i][2] = StoreTime(0)
    /\ \E i \in 1..Len(PageRows) :
        /\ PageRows[i][2] \in {PyNone, PyInt(5), PyStr(""), PyStr("yesterday")}
        /\ response.body.items[i].recorded_at = PyDatetime(now, "")


\* The values of a well-formed row, in the order of the columns of the query
GoodValues == <<PyStr("c1"), StoreTime(0), PyInt(120), PyInt(80), PyInt(72)>>

\* Every value the row has is well-formed: a text id, a timestamp that parses
\* and, in the numeric columns, the value of GoodValues or null
PresentValuesWellFormed(row) ==
    /\ Len(row) >= 2
    /\ row[1].t = "str"
    /\ row[2] = GoodValues[2]
    /\ \A k \in 3..Min(Len(row), Len(GoodValues)) : row[k] \in {PyNone, GoodValues[k]}

\* C17: a logical column that is missing from the column descriptors, or has no
\* value because the row is shorter than the column list, gives an absent value
\* for that field and never an error; values beyond the column list are ignored;
\* a null value is reconstructed as an absent field while the other fields keep
\* their values.
C17_MissingValuesAbsentNeverError ==
    (Listed /\ result.raise = "") =>
        \A i \in 1..Len(PageRows) :
            (OtherRowsReconstructed(i) /\ PresentValuesWellFormed(PageRows[i]))
            => /\ response.status = 200
               /\ \A f \in NumericColumns :
                    LET v == RowValue(PageRows[i], f)
                    IN  response.body.items[i][f] = (IF v = Missing THEN PyNone ELSE v)


\* The record of the round trip has been reconstructed
RoundTripDone == op = "round_trip" /\ pc = "round_trip_done"

\* The reconstructed record equals r on the fields the composition carries
RoundTripEqualOnSerializedFields ==
    /\ response.status = 200
    /\ Len(response.body.items) = 1
    /\ response.body.total = 1
    /\ LET item == response.body.items[1]
       IN  /\ item.patient_id = data.patient_id
           /\ item.recorded_at = data.recorded_at
           /\ item.systolic = data.systolic
           /\ item.diastolic = data.diastolic
           /\ item.pulse_rate = data.pulse_rate

\* C18 as stated: the values _build_flat_composition serializes for a valid
\* record r, taken as a one-row query result and reconstructed by
\* get_vital_signs_for_patient, give a record equal to r on all populated fields.
C18_RoundTripAllPopulatedFields ==
    RoundTripDone =>
        /\ RoundTripEqualOnSerializedFields
        /\ data.encounter_id # PyNone
            => response.body.items[1].encounter_id = data.encounter_id

\* C18: the reconstructed record equals r on the patient id, the recorded time,
\* systolic, diastolic and pulse rate; the encounter id is not serialized and
\* comes back absent.
C18_RoundTripSerializedFields ==
    RoundTripDone =>
        /\ RoundTripEqualOnSerializedFields
        /\ response.body.items[1].encounter_id = PyNone

\* A record with an encounter id, an aware recorded time and the three vitals has
\* made the round trip
C18_Witness ==
    /\ RoundTripDone
    /\ data.encounter_id = PyStr("enc-1")
    /\ data.recorded_at = PyDatetime(0, "UTC")
    /\ data.systolic = PyInt(120) /\ data.pulse_rate = PyInt(72)
    /\ response.status = 200
    /\ response.body.items[1].recorded_at = PyDatetime(0, "UTC")


\* The five observation operations
ObservationOperations ==
    {"record_vital_signs", "get_vital_signs_for_patient", "get_vital_signs",
     "delete_vital_signs", "get_raw_composition"}

\* The patient id of the current request
RequestPatientId ==
    IF op = "record_vital_signs" THEN data.patient_id ELSE query_args.patient_id

\* The request was answered after a patient lookup that found no patient
PatientNotFound ==
    /\ op \in ObservationOperations
    /\ pc = "done"
    /\ response.status # 422
    /\ find_patient_by_id(RequestPatientId) = {}

\* C19 as stated: in every observation operation, when the patient lookup finds
\* no patient the caller receives a "not found" signal and no call of the
\* gateway is attempted.
C19_PatientNotFoundSignalled ==
    PatientNotFound => (response.status = 404 /\ calls = <<>>)

\* C19: when the patient lookup finds no patient no call of the gateway is
\* attempted; record_vital_signs, get_vital_signs, delete_vital_signs and
\* get_raw_composition answer "not found" (404), and
\* get_vital_signs_for_patient answers with the empty list (items = [], total = 0).
C19_PatientNotFoundNoGatewayCall ==
    PatientNotFound =>
        /\ calls = <<>>
        /\ IF op = "get_vital_signs_for_patient"
           THEN response = HttpResponse(200, [items |-> <<>>, total |-> 0], "")
           ELSE /\ response.status = 404
                /\ response.body = PyNone
                /\ response.detail =
                    CASE op = "record_vital_signs" -> "Patient not found"
                      [] op = "get_vital_signs" -> "Vital signs not found"
                      [] op = "delete_vital_signs" -> "Vital signs not found or delete failed"
                      [] op = "get_raw_composition" -> "Composition not found"

\* A list request for an unknown patient has been answered
C19_Witness ==
    /\ PatientNotFound
    /\ op = "get_vital_signs_for_patient"
    /\ response.status = 200
    /\ calls = <<>>

\* The single-record operation has the reply of the store
Fetched == op = "get_vital_signs" /\ pc = "done" /\ Len(calls) > 0
Deleted == op = "delete_vital_signs" /\ pc = "done" /\ Len(calls) > 0

\* C20: when the store reports that the composition does not exist,
\* get_vital_signs answers absent and delete_vital_signs answers failure (404
\* both); a record is answered only with vitals read from a document of the
\* store, never one filled with defaults, and the delete reports success only
\* when the store confirmed the deletion (204).
C20_MissingCompositionAbsentOrFailed ==
    /\ Fetched =>
        /\ result.raise # "" => response = HttpResponse(404, PyNone, "Vital signs not found")
        /\ response.status \in {200, 404}
        /\ response.status = 200 =>
            /\ result.raise = ""
            /\ \E f \in NumericColumns : response.body[f] # PyNone
            /\ \A f \in NumericColumns :
                response.body[f] # PyNone =>
                    \E k \in DOMAIN result.json :
                        /\ result.json[k].t \in {"int", "float"}
                        /\ result.json[k].n = response.body[f].n
    /\ Deleted =>
        /\ response.status \in {204, 404}
        /\ response.status = 204 <=> (result.raise = "" /\ result.json.status_code = 204)
        /\ (result.raise = "" /\ result.json.status_code = 404) => response.status = 404

\* A read of a composition the store does not have has been answered 404
C20_Witness ==
    /\ Fetched
    /\ result.raise = "HTTPStatusError"
    /\ response.status = 404


\* The calls of the gateway operation name in the current invocation
CallsOf(name) == Cardinality({i \in 1..Len(calls) : calls[i].op = name})

\* C21: within one invocation record_vital_signs calls create_composition at most
\* once and get_vital_signs_for_patient calls execute_aql at most once; after a
\* failed call the invocation ends without a further attempt, the write with the
\* placeholder and the query with the empty result.
C21_NoRetry ==
    /\ op = "record_vital_signs" =>
        /\ Len(calls) <= 1
        /\ CallsOf("create_composition") = Len(calls)
        /\ (pc \in {"record_create", "done"} /\ result # PyNone /\ result.raise # "")
            => /\ pc = "done"
               /\ Len(calls) = 1
               /\ response.status = 201
               /\ StartsWith(response.body.id.s, "placeholder-")
    /\ op = "get_vital_signs_for_patient" =>
        /\ Len(calls) <= 1
        /\ CallsOf("execute_aql") = Len(calls)
        /\ (pc \in {"list_query", "done"} /\ result # PyNone /\ result.raise # "")
            => /\ pc = "done"
               /\ Len(calls) = 1
               /\ response = HttpResponse(200, [items |-> <<>>, total |-> 0], "")

\* A query failed and was answered with the empty list after its one call
C21_Witness ==
    /\ op = "get_vital_signs_for_patient"
    /\ pc = "done"
    /\ Len(calls) = 1
    /\ result # PyNone
    /\ result.raise = "ConnectError"
    /\ response.body.total = 0


\* The identifier the reply of create_composition carries: uid.value, else
\* compositionUid, else none
StoreIdentifier(reply) ==
    IF reply.raise # "" THEN Missing
    ELSE IF reply.json.uid # Missing /\ reply.json.uid.t = "dict"
            /\ truthy(dict_get(reply.json.uid.value, PyNone))
         THEN reply.json.uid.value
         ELSE reply.json.compositionUid

\* C26: every VitalSignsResponse of record_vital_signs has a non-empty id that is
\* the identifier the store returned for the write or an identifier with the
\* prefix "placeholder-", also when the reply of the store carries no identifier.
C26_IdentifierFromStoreOrTagged ==
    (Recorded /\ response.status = 201) =>
        /\ response.body.id.t = "str"
        /\ response.body.id.s # ""
        /\ \/ response.body.id = StoreIdentifier(result)
           \/ StartsWith(response.body.id.s, "placeholder-")


\* The records the current answer carries, of record_vital_signs,
\* get_vital_signs_for_patient and get_vital_signs
AnsweredRecords ==
    ResponseItems \cup (IF Fetched /\ response.status = 200 THEN {response.body} ELSE {})

\* C28: in every VitalSignsResponse of record_vital_signs, get_vital_signs and
\* get_vital_signs_for_patient the metadata has the id of the response as
\* composition_uid, the fixed template id, the EHR id of the patient looked up in
\* the call, and in each path mapping the value of the response field of the
\* same name.
C28_MetadataAgreesWithResponse ==
    \A item \in AnsweredRecords :
        LET md == item.openehr_metadata
        IN  /\ md.composition_uid = item.id
            /\ md.template_id = "IDCR - Vital Signs Encounter.v1"
            /\ md.ehr_id \in {PyStr(row.ehrId) : row \in find_patient_by_id(RequestPatientId)}
            /\ item.patient_id = RequestPatientId
            /\ \A i \in 1..Len(md.path_mappings) :
                /\ md.path_mappings[i].field \in NumericColumns
                /\ md.path_mappings[i].value = item[md.path_mappings[i].field]
                /\ md.path_mappings[i].value # PyNone

\* A single record with a blood pressure has been read back with its metadata
C28_Witness ==
    /\ Fetched
    /\ response.status = 200
    /\ response.body.systolic = PyInt(120)
    /\ Len(response.body.openehr_metadata.path_mappings) >= 2
    /\ response.body.openehr_metadata.ehr_id = PyStr("ehr-1")

\* coroutine t starts a gateway call in this step
CallStarts(t) == tasks[t].pc = "idle" /\ tasks'[t].pc = "awaiting"

\* close() of coroutine t returns in this step
CloseReturns(t) ==
    /\ tasks[t].pc \in {"idle", "closing"}
    /\ tasks'[t].pc = "returned"
    /\ tasks'[t].op = "close"

LifecycleStep ==
    /\ \A t \in 1..MaxTasks :
          /\ CallStarts(t) =>
                /\ tasks'[t].client = _client'
                /\ _client # PyNone => /\ _client' = _client
                                       /\ http_clients' = http_clients
                /\ _client = PyNone => /\ _client' # PyNone
                                       /\ _client'.n \notin DOMAIN http_clients
                                       /\ http_clients'[_client'.n] = "open"
          /\ CloseReturns(t) => _client' = PyNone
    /\ (_client = PyNone /\ _client' # PyNone) => \E t \in 1..MaxTasks : CallStarts(t)
    /\ (_client # PyNone /\ _client' # _client) => \E t \in 1..MaxTasks : CloseReturns(t)

\* C23: a new EHRBaseClient has _client None until the first gateway call;
\* _get_client creates the HTTP client once and hands out that same instance
\* on every later call until close(); close() always leaves _client None,
\* also when no client was created or close() is called again; a gateway
\* call after close() creates a fresh HTTP client.
C23_ClientLifecycle == (_client = PyNone) /\ [][LifecycleStep]_vars

\* a gateway call made after a close() runs on a second, fresh HTTP client
C23_Witness ==
    \E t \in 1..MaxTasks :
        /\ tasks[t].pc = "awaiting"
        /\ tasks[t].client = AsyncClient(2)
        /\ _client = AsyncClient(2)
        /\ http_clients = <<"closed", "open">>

\* C30: under every interleaving of close() with concurrent gateway calls
\* _get_client never hands out an HTTP client whose aclose() has already been
\* started, and at most one HTTP client that is not closed exists at a time.
C30_NoClosingClientHandedOut ==
    /\ [][\A t \in 1..MaxTasks :
             CallStarts(t) => http_clients'[tasks'[t].client.n] = "open"]_vars
    /\ [](Cardinality({i \in DOMAIN http_clients : http_clients[i] # "closed"}) <= 1)

\* C24: whenever the database is connected, GET /health answers 200 with the
\* body {"status": "healthy"}.
C24_HealthyBody ==
    [][\A t \in 1..MaxTasks :
          (tasks[t].pc = "idle" /\ tasks'[t].op = "health_check" /\ db_connected) =>
              /\ tasks'[t].response.status = 200
              /\ tasks'[t].response.body = ("status" :> "healthy")]_vars

\* the rows of soft-deleted patients
SoftDeleted == {row \in registry : row.deletedAt # PyNone}

\* a read operation of the patient service has answered
PatientAnswered(name) == op = name /\ pc = "done"

SoftDeletedAbsent ==
    /\ (/\ PatientAnswered("get_patient")
        /\ \E row \in SoftDeleted : row.id = query_args.patient_id) =>
           response.status = 404
    /\ (/\ PatientAnswered("get_patient_by_mrn")
        /\ \E row \in SoftDeleted : row.mrn = query_args.mrn) =>
           response.status = 404
    /\ (/\ PatientAnswered("mrn_exists")
        /\ \E row \in SoftDeleted : row.mrn = query_args.mrn) =>
           ~response.body.exists
    /\ (PatientAnswered("list_patients") /\ ~query_args.include_deleted) =>
           \A i \in DOMAIN response.body :
               \A row \in SoftDeleted : response.body[i].id # row.id

SoftDeleteStep ==
    /\ \A row \in SoftDeleted : row \in registry'
    /\ (/\ pc = "patient_lookup"
        /\ op = "delete_patient"
        /\ pc' # pc
        /\ \E row \in SoftDeleted : row.id = query_args.patient_id) =>
           /\ pc' = "done"
           /\ response'.status = 404
           /\ registry' = registry

\* C25: after delete_patient(p) has succeeded, get_patient(p),
\* get_patient_by_mrn(mrn of p) and mrn_exists(mrn of p) treat p as absent,
\* list_patients omits p unless include_deleted is set, and a further
\* delete_patient(p) returns False and leaves deletedAt as it is.
C25_SoftDeleteAbsent == []SoftDeletedAbsent /\ [][SoftDeleteStep]_vars

\* a second delete of a patient deleted at an earlier time was answered 404
C25_Witness ==
    /\ PatientAnswered("delete_patient")
    /\ response.status = 404
    /\ now = 1
    /\ \E row \in SoftDeleted :
          row.id = query_args.patient_id /\ row.deletedAt = PyDatetime(0, "UTC")

\* C29: the observation operations treat a soft-deleted patient as not found:
\* recording for it is rejected with "Patient not found", get, list and delete
\* answer absent, empty and failure, and the store is not called.
C29_SoftDeletedPatientNotFound ==
    (/\ op \in ObservationOperations
     /\ pc = "done"
     /\ response.status # 422
     /\ \E row \in SoftDeleted : row.id = RequestPatientId) =>
        /\ calls = <<>>
        /\ op = "record_vital_signs" =>
              response.status = 404 /\ response.detail = "Patient not found"
        /\ op \in {"get_vital_signs", "delete_vital_signs"} => response.status = 404
        /\ op = "get_vital_signs_for_patient" => response.body = <<>>

\* C27: after record_vital_signs has stored a record of patient p and returned
\* the store's identifier c, get_vital_signs(c, p) returns a record with the
\* systolic, diastolic, pulse_rate and recorded_at that were submitted.
C27_ReadYourWrites ==
    (/\ op = "get_vital_signs"
     /\ pc = "done"
     /\ result # PyNone
     /\ result.raise = "") =>
        \A c \in store :
            (c.uid = query_args.composition_uid
                /\ c.submitted.patient_id = query_args.patient_id) =>
                /\ response.status = 200
                /\ response.body.systolic = c.submitted.systolic
                /\ response.body.diastolic = c.submitted.diastolic
                /\ response.body.pulse_rate = c.submitted.pulse_rate
                /\ response.body.recorded_at = c.submitted.recorded_at

\* The response of an invocation run alone: from its own request, the patient
\* registry and the reply of the store to its own call
alone_response(task) ==
    IF task.op = "record_vital_signs" /\ ~VitalSignsCreate_ok(task.data)
    THEN HttpResponse(422, PyNone, "validation error")
    ELSE LET patient == find_patient_by_id(invocation_patient_id(task))
         IN  IF patient = {}
             THEN patient_not_found_response(task.op)
             ELSE store_reply_response(task, task.result,
                      PyStr((CHOOSE row \in patient : TRUE).ehrId))

\* The gateway calls of an invocation run alone
alone_calls(task) ==
    IF task.op = "record_vital_signs" /\ ~VitalSignsCreate_ok(task.data)
    THEN <<>>
    ELSE LET patient == find_patient_by_id(invocation_patient_id(task))
         IN  IF patient = {}
             THEN <<>>
             ELSE <<gateway_call(task, PyStr((CHOOSE row \in patient : TRUE).ehrId))>>

\* C22: concurrent invocations of the observation operations do not interfere:
\* under every interleaving of their suspension points each invocation makes
\* the calls and returns the response it makes and returns when run alone
\* against the same store replies, and the path-mapping table stays as written.
C22_NoInterference ==
    /\ ARCHETYPES = ARCHETYPES_LITERAL
    /\ \A t \in 1..MaxTasks :
          tasks[t].pc = "done" =>
              /\ tasks[t].response = alone_response(tasks[t])
              /\ tasks[t].calls = alone_calls(tasks[t])

\* a write was answered while a query of another coroutine was waiting for the store
C22_Witness ==
    /\ tasks[1].pc = "done"
    /\ tasks[1].op = "record_vital_signs"
    /\ tasks[1].response.status = 201
    /\ tasks[2].pc = "store"
    /\ tasks[2].op = "get_vital_signs_for_patient"

====
